---- MODULE Spec2Model ----
(***************************************************************************)
(* A model of the planning core of Youtu-agent (SAP career coach):         *)
(*   - EnhancedMemoryToolkit   (utu/tools/memory_toolkit.py)               *)
(*   - OutputParser            (utu/agents/orchestra/planner.py)           *)
(*   - ContextBuilder          (utu/agents/orchestra/context_builder.py)   *)
(*                                                                         *)
(* Text.  A Python str is modelled as a sequence of pieces [c, n]: the     *)
(* text c repeated n times.  Most pieces are one character wide ("x",      *)
(* " ", "\n"); a few are literals that the code searches for or inserts    *)
(* (an important pattern, the compression marker, an agent name) and are   *)
(* as wide as the literal.  A text is kept in normal form: no piece with   *)
(* n = 0 and no two neighbours with the same c, so that equality of        *)
(* sequences is equality of the strings they stand for.  Lengths are the   *)
(* real character counts, so the code's limits (24000, 20000, 50, ...)     *)
(* appear with their own values.                                           *)
(***************************************************************************)
EXTENDS Integers, Sequences, FiniteSets, TLC

VARIABLES
    \* EnhancedMemoryToolkit
    full_memory,        \* self.full_memory
    memory_metadata,    \* self.memory_metadata: total_size, last_updated, compression_count
    ret,                \* what the last call of enhanced_memory returned
    call,               \* the last call: its action, its arguments, the store before it
    compressed,         \* full_memory is what a run of _compress_memory_content produced
    now,                \* the clock datetime.now() reads; also the number of calls made
    \* OutputParser in PlannerAgent.create_plan
    response_lines,     \* the lines the response is made of
    output_text,        \* the response given to OutputParser.parse
    available_agents,   \* the names of OutputParser.available_agents, in order
    plan_result,        \* what parse returned, or that it raised
    stored_lines,       \* the task lines _store_planning_insights wrote
    reextracted,        \* the tasks read back from the task lines
    step,               \* how far create_plan has come
    \* ContextBuilder
    agent_memories,         \* the items of agent_memories: agent_name, memory
    conversation_history,   \* the exchanges: user_input, response
    context_string,         \* what build_memory_context_string returned
    context_step,           \* whether it has been called
    \* PlannerAgent.create_plan
    memory_toolkit,         \* whether self.memory_toolkit is a store (else None)
    llm_type,               \* self.llm.type
    memory_context,         \* self.memory_context
    user_query,             \* task_recorder.task, the user query
    raw_response,           \* the message of the initial model call
    tool_results,           \* what _handle_tool_calls returned
    follow_up_response,     \* the message of the follow-up model call
    messages_with_tools,    \* what the follow-up call was given after the prompt
    pc,                     \* where create_plan stands
    model_calls,            \* the model calls issued in this turn
    executed,               \* the ids of the tool calls executed in this turn
    persist,                \* what _store_planning_insights did in this turn
    returned,               \* what create_plan returned to its caller
    turn,                   \* the planning turns begun
    \* WebSocketHandler
    stream_tasks,           \* the streaming tasks created, one for each query
    finish_requested,       \* self.finish_requested
    sent,                   \* the events written to the socket, in order
    received,               \* the messages on_message has handled
    \* PlannerAgent.update_conversation_history
    planner_history,        \* self.conversation_history of the planner
    recorded,               \* every exchange update_conversation_history was given
    \* main of main_orchestra
    session_history,        \* conversation_history of the interactive loop
    clarification_count,    \* clarification_count
    session_log             \* what became of each line the user entered

memVars == <<full_memory, memory_metadata, ret, call, compressed, now>>

parserVars == <<response_lines, output_text, available_agents, plan_result, stored_lines,
                reextracted, step>>

contextVars == <<agent_memories, conversation_history, context_string, context_step>>

plannerVars == <<memory_toolkit, llm_type, memory_context, user_query, raw_response, tool_results,
                 follow_up_response,
                 messages_with_tools, pc, model_calls, executed, persist, returned, turn>>

socketVars == <<stream_tasks, finish_requested, sent, received>>

historyVars == <<planner_history, recorded>>

sessionVars == <<session_history, clarification_count, session_log>>

vars == <<full_memory, memory_metadata, ret, call, compressed, now,
          response_lines, output_text, available_agents, plan_result, stored_lines,
          reextracted, step,
          agent_memories, conversation_history, context_string, context_step,
          memory_toolkit, llm_type, memory_context, user_query, raw_response, tool_results,
                 follow_up_response,
          messages_with_tools, pc, model_calls, executed, persist, returned, turn,
          stream_tasks, finish_requested, sent, received,
          planner_history, recorded,
          session_history, clarification_count, session_log>>

----------------------------------------------------------------------------
(* Bounds of the model. *)

\* Calls of enhanced_memory made on one store.
MaxCalls == 2

\* Lines of a response given to the parser.
MaxLines == 2

\* Agents whose memory the context builder is given.
MaxAgents == 3

\* Exchanges of a conversation history.
MaxExchanges == 11

\* Planning turns of one planner.
MaxTurns == 2

\* Tool calls requested by one model response.
MaxToolCalls == 2

\* Messages a client sends over one socket.
MaxMessages == 3

----------------------------------------------------------------------------
(* Text as pieces. *)

Max(a, b) == IF a >= b THEN a ELSE b
Min(a, b) == IF a <= b THEN a ELSE b

NL == "\n"
SP == " "

\* important_patterns of _compress_memory_content
important_patterns == {"KEY_FINDINGS", "USER_PREFERENCES", "RESEARCHED_TOPICS", "TARGET_ROLE"}

RECURSIVE Digits(_)
Digits(k) == IF k < 10 THEN 1 ELSE 1 + Digits(k \div 10)

\* The line the marker holds, between its two newlines:
\* "<5 characters> Memory compressed {k} times to fit capacity limits"
MarkerText(k) == "Memory compressed " \o ToString(k) \o " times to fit capacity limits"

IsMarkerText(c) == \E k \in 1..(MaxCalls + 2) : c = MarkerText(k)

\* datetime.datetime.now().isoformat() read when the clock stands at t
Timestamp(t) == "timestamp:" \o ToString(t)

IsTimestamp(c) == \E t \in 0..(MaxTurns * (MaxToolCalls + 3) + 1) : c = Timestamp(t)

\* The pieces that are one character.
\* (The letters are ones that no literal of the model contains.)
Digit == {ToString(k) : k \in 0..9}
Characters == {"x", "z", "q", "Q", "A", SP, NL, ".", ":", "-", "*", "#"} \cup Digit

\* The number of characters of one copy of c.
Width(c) ==
    IF c \in Characters THEN 1
    ELSE CASE c = "KEY_FINDINGS" -> 12
           [] c = "USER_PREFERENCES" -> 16
           [] c = "RESEARCHED_TOPICS" -> 17
           [] c = "TARGET_ROLE" -> 11
           [] IsMarkerText(c) ->
                53 + Digits(CHOOSE k \in 1..(MaxCalls + 2) : c = MarkerText(k))
           [] c \in {"ResearchAgent", "AnalysisAgent", "researchagent", "analysisagent"} -> 13
           [] c = "SkillsDevelopmentAgent" -> 22
           [] c = "SynthesisAgent" -> 14
           [] c = "WriterAgent" -> 11
           [] c = "## Query Analysis" -> 17
           [] c = "## Agent Action Plan" -> 20
           [] c = "Research SAP career information and provide relevant guidance" -> 61
           [] c = "RECENT CONVERSATION HISTORY:" -> 28
           [] c \in {"RESEARCHAGENT", "ANALYSISAGENT"} -> 13
           [] c = "SKILLSDEVELOPMENTAGENT" -> 22
           [] c = "SYNTHESISAGENT" -> 14
           [] c = "_MEMORY:" -> 8
           [] c = "Context truncated for token limits" -> 37
           [] c = "<analysis>" -> 10
           [] c = "</analysis>" -> 11
           [] c = "<plan>" -> 6
           [] c = "</plan>" -> 7
           [] c = "json:[{agent_name:" -> 17
           [] c = "json:,task:" -> 12
           [] c = "json:,completed:false}]" -> 23
           [] c \in {"si", "Si"} -> 2
           [] c \in {"New", "has"} -> 3
           [] c = "been" -> 4
           [] c = "chars" -> 5
           [] c \in {"isting", "Memory"} -> 6
           [] c \in {"Warning", "content", "updated"} -> 7
           [] c = "Overwriting" -> 11
           [] c = "successfully" -> 12
           [] IsTimestamp(c) -> 26
           [] c \in {"PLANNING SESSION", "Analysis Summary"} -> 16
           [] c = "User Query" -> 10
           [] c = "Target Role" -> 11
           [] c = "Not specified" -> 13
           [] c = "Assigned Tasks" -> 14
           [] c = "solution architect" -> 18
           [] c = "SAP Solution Architect" -> 22
           [] c \in {"cloud engineer", "Cloud Engineer", "SAP Consultant"} -> 14
           [] c = "consultant" -> 10
           [] c = "developer" -> 9
           [] c \in {"administrator", "SAP Developer"} -> 13
           [] c = "SAP Administrator" -> 17
           [] c = "No previous conversation memory found. This is the start of our conversation about SAP career guidance." -> 103
           [] c = "MEMORY CONTEXT FROM PREVIOUS CONVERSATIONS:" -> 43
           [] c = "INSTRUCTIONS: Use this context to understand the user's career goals, previous planning decisions, and preferences. Reference the target role and build upon previous analysis rather than starting fresh." -> 202
           [] c = "Tool executed successfully, but no additional planning content generated." -> 73
           [] c = "Error in follow-up call, using original response." -> 49
           [] c = "Memory toolkit not available" -> 28
           [] c = "Error executing tool: " -> 22
           [] c = "Expecting property name enclosed in double quotes: line 1 column 2 (char 1)" -> 75
           [] c = "object of type 'NoneType' has no len()" -> 38
           [] OTHER -> 1

Piece(c, n) == [c |-> c, n |-> n]
Rep(c, n) == IF n = 0 THEN <<>> ELSE <<Piece(c, n)>>

PLen(p) == Width(p.c) * p.n

\* The recursions below halve the sequence, so that their depth is the
\* logarithm of its length.
Left(s) == SubSeq(s, 1, Len(s) \div 2)
Right(s) == SubSeq(s, Len(s) \div 2 + 1, Len(s))

\* len(s)
RECURSIVE StrLen(_)
StrLen(s) ==
    IF s = <<>> THEN 0
    ELSE IF Len(s) = 1 THEN PLen(s[1])
    ELSE StrLen(Left(s)) + StrLen(Right(s))

\* Two texts in normal form joined into one in normal form.
Glue(l, r) ==
    IF l # <<>> /\ r # <<>> /\ l[Len(l)].c = r[1].c
    THEN SubSeq(l, 1, Len(l) - 1) \o <<Piece(r[1].c, l[Len(l)].n + r[1].n)>> \o Tail(r)
    ELSE l \o r

\* The normal form of a sequence of pieces.
RECURSIVE Norm(_)
Norm(s) ==
    IF s = <<>> THEN <<>>
    ELSE IF Len(s) = 1 THEN (IF s[1].n = 0 THEN <<>> ELSE s)
    ELSE Glue(Norm(Left(s)), Norm(Right(s)))

\* s + t
Cat(s, t) == Norm(s \o t)

\* What is left of a piece cut in the middle of a literal: the last k characters
\* of the literal, k < Width(c).  They are letters and hold no important pattern.
TailOf(c, k) == Rep("tail:" \o c, k)

\* The last k characters of piece p, k < PLen(p).
CutSuffix(p, k) ==
    LET w == Width(p.c) IN
    IF w = 1 THEN Rep(p.c, k)
    ELSE TailOf(p.c, k % w) \o Rep(p.c, k \div w)

\* s[-k:] for k >= 1
RECURSIVE LastChars(_, _)
LastChars(s, k) ==
    IF k <= 0 \/ s = <<>> THEN <<>>
    ELSE IF Len(s) = 1 THEN (IF PLen(s[1]) <= k THEN s ELSE CutSuffix(s[1], k))
    ELSE LET r == StrLen(Right(s)) IN
         IF r >= k THEN LastChars(Right(s), k)
         ELSE LastChars(Left(s), k - r) \o Right(s)

\* What is left of a piece cut in the middle of a literal: its first k characters.
HeadOf(c, k) == Rep("head:" \o c, k)

\* The first k characters of piece p, k < PLen(p).
CutPrefix(p, k) ==
    LET w == Width(p.c) IN
    IF w = 1 THEN Rep(p.c, k)
    ELSE Rep(p.c, k \div w) \o HeadOf(p.c, k % w)

\* s[:k]
RECURSIVE FirstChars(_, _)
FirstChars(s, k) ==
    IF k <= 0 \/ s = <<>> THEN <<>>
    ELSE IF Len(s) = 1 THEN (IF PLen(s[1]) <= k THEN s ELSE CutPrefix(s[1], k))
    ELSE LET l == StrLen(Left(s)) IN
         IF l >= k THEN FirstChars(Left(s), k)
         ELSE Left(s) \o FirstChars(Right(s), k - l)

\* s.split('\n'): a sequence of lines, never empty
RECURSIVE SplitNL(_)
SplitNL(s) ==
    IF s = <<>> THEN << <<>> >>
    ELSE IF Len(s) = 1
    THEN (IF s[1].c = NL THEN [i \in 1..(s[1].n + 1) |-> <<>>] ELSE <<s>>)
    ELSE LET l == SplitNL(Left(s))
             r == SplitNL(Right(s))
         IN SubSeq(l, 1, Len(l) - 1) \o << l[Len(l)] \o r[1] >> \o Tail(r)

\* '\n'.join(lines)
RECURSIVE JoinRaw(_)
JoinRaw(lines) ==
    IF lines = <<>> THEN <<>>
    ELSE IF Len(lines) = 1 THEN lines[1]
    ELSE JoinRaw(Left(lines)) \o Rep(NL, 1) \o JoinRaw(Right(lines))

JoinNL(lines) == Norm(JoinRaw(lines))

IsSpace(c) == c \in {SP, NL}

\* not line.strip()
IsBlank(s) == \A i \in 1..Len(s) : IsSpace(s[i].c)

\* any(pattern in line for pattern in important_patterns)
HasImportant(line) == \E i \in 1..Len(line) : line[i].c \in important_patterns

\* The elements seq[lo..hi] whose indices are in idx, in order.
RECURSIVE Pick(_, _, _, _)
Pick(seq, idx, lo, hi) ==
    IF lo > hi THEN <<>>
    ELSE IF lo = hi THEN (IF lo \in idx THEN <<seq[lo]>> ELSE <<>>)
    ELSE LET mid == (lo + hi) \div 2 IN
         Pick(seq, idx, lo, mid) \o Pick(seq, idx, mid + 1, hi)

----------------------------------------------------------------------------
(* str.__contains__, str.count and str.replace(old, new, 1) on pieces.      *)
(* An occurrence of sub = <<q1, ..., qk>> with k >= 2 lies at a piece i of s *)
(* when q1 is the end of s[i], q2..q(k-1) are s[i+1]..s[i+k-2] and qk is the *)
(* start of s[i+k-1].  With k = 1 it lies anywhere inside a piece.           *)

MatchAt(s, sub, i) ==
    LET k == Len(sub) IN
    /\ i >= 1 /\ i + k - 1 <= Len(s)
    /\ s[i].c = sub[1].c /\ s[i].n >= sub[1].n
    /\ \A j \in 2..(k - 1) : s[i + j - 1] = sub[j]
    /\ s[i + k - 1].c = sub[k].c /\ s[i + k - 1].n >= sub[k].n

\* sub in s
Contains(s, sub) == sub = <<>> \/ \E i \in 1..Len(s) : MatchAt(s, sub, i)

\* Occurrences of a one-piece sub in s[lo..hi]: in each piece of its text,
\* as many as fit side by side.
RECURSIVE CountInPieces(_, _, _, _)
CountInPieces(s, q, lo, hi) ==
    IF lo > hi THEN 0
    ELSE IF lo = hi THEN (IF s[lo].c = q.c THEN s[lo].n \div q.n ELSE 0)
    ELSE LET mid == (lo + hi) \div 2 IN
         CountInPieces(s, q, lo, mid) + CountInPieces(s, q, mid + 1, hi)

\* Occurrences of a sub of two or more pieces found scanning from piece i, of
\* which the first `used` characters belong to the occurrence before.  The scan
\* goes on where the occurrence found ends: in its last piece.
RECURSIVE CountFrom(_, _, _, _)
CountFrom(s, sub, i, used) ==
    LET k == Len(sub)
        free(j) == IF j = i THEN s[j].n - used ELSE s[j].n
        found == {j \in i..Len(s) : MatchAt(s, sub, j) /\ free(j) >= sub[1].n}
    IN IF found = {} THEN 0
       ELSE LET j == CHOOSE x \in found : \A y \in found : x <= y IN
            1 + CountFrom(s, sub, j + k - 1, sub[k].n)

\* s.count(sub): non-overlapping occurrences; len(s) + 1 for the empty string
Count(s, sub) ==
    IF sub = <<>> THEN StrLen(s) + 1
    ELSE IF Len(sub) = 1 THEN CountInPieces(s, sub[1], 1, Len(s))
    ELSE CountFrom(s, sub, 1, 0)

\* s.replace(sub, new, 1)
ReplaceFirst(s, sub, new) ==
    IF sub = <<>> THEN Cat(new, s)
    ELSE IF ~Contains(s, sub) THEN s
    ELSE LET k == Len(sub)
             i == CHOOSE j \in 1..Len(s) :
                      MatchAt(s, sub, j) /\ \A h \in 1..(j - 1) : ~MatchAt(s, sub, h)
         IN IF k = 1
            THEN Norm(SubSeq(s, 1, i - 1) \o new
                      \o <<Piece(s[i].c, s[i].n - sub[1].n)>>
                      \o SubSeq(s, i + 1, Len(s)))
            ELSE Norm(SubSeq(s, 1, i - 1)
                      \o <<Piece(s[i].c, s[i].n - sub[1].n)>>
                      \o new
                      \o <<Piece(s[i + k - 1].c, s[i + k - 1].n - sub[k].n)>>
                      \o SubSeq(s, i + k, Len(s)))

----------------------------------------------------------------------------
(* EnhancedMemoryToolkit *)

max_memory_size == 24000
compression_threshold == 20000
\* lines[-50:] of _compress_memory_content
recent_line_count == 50

\* The state of a store after __init__.  last_updated = 0 stands for None.
InitMetadata == [total_size |-> 0, last_updated |-> 0, compression_count |-> 0]

\* compression_marker for a store compressed k times
compression_marker(k) == <<Piece(NL, 1), Piece(MarkerText(k), 1), Piece(NL, 1)>>

\* lines[-k:]
LastLines(lines, k) == SubSeq(lines, Max(1, Len(lines) - k + 1), Len(lines))

\* The loop over reversed(all_important): a line is kept when it is not blank
\* and no later line of all_important is equal to it.
Deduplicate(all_important) ==
    Pick(all_important,
         {i \in 1..Len(all_important) :
             /\ ~IsBlank(all_important[i])
             /\ \A j \in (i + 1)..Len(all_important) : all_important[j] # all_important[i]},
         1, Len(all_important))

\* _compress_memory_content(content) on a store whose compression_count is
\* count: the string returned and the compression_count afterwards.
_compress_memory_content(content, count) ==
    IF StrLen(content) <= max_memory_size
    THEN [result |-> content, compression_count |-> count]
    ELSE LET lines == SplitNL(content)
             recent_lines == LastLines(lines, recent_line_count)
             important_lines == SelectSeq(lines, HasImportant)
             compressed_lines == Deduplicate(important_lines \o recent_lines)
             joined == JoinNL(compressed_lines)
             truncated == IF StrLen(joined) > max_memory_size
                          THEN LastChars(joined, max_memory_size)
                          ELSE joined
         IN [result |-> Cat(compression_marker(count + 1), truncated),
             compression_count |-> count + 1]

\* _update_metadata()
_update_metadata(mem, meta, t) ==
    [meta EXCEPT !.total_size = StrLen(mem), !.last_updated = t]

\* _write_memory(content): the store afterwards and the status returned
_write_memory(mem, meta, content, t) ==
    LET c == IF StrLen(content) > max_memory_size
             THEN _compress_memory_content(content, meta.compression_count)
             ELSE [result |-> content, compression_count |-> meta.compression_count]
        meta1 == [meta EXCEPT !.compression_count = c.compression_count]
    IN [full_memory |-> c.result,
        memory_metadata |-> _update_metadata(c.result, meta1, t),
        ret |-> IF mem # <<>>
                THEN [kind |-> "overwrite_warning", previous_size |-> StrLen(mem),
                      size |-> StrLen(c.result)]
                ELSE [kind |-> "updated", previous_size |-> 0, size |-> StrLen(c.result)]]

\* _compress_memory_if_needed()
_compress_memory_if_needed(mem, count) ==
    IF StrLen(mem) > compression_threshold
    THEN _compress_memory_content(mem, count)
    ELSE [result |-> mem, compression_count |-> count]

\* _edit_memory without its check of count > 1: the first occurrence is replaced
\* however many there are.
_edit_memory_first_of_many(mem, meta, old_string, new_string, t) ==
    IF ~Contains(mem, old_string)
    THEN [full_memory |-> mem, memory_metadata |-> meta,
          ret |-> [kind |-> "not_found", previous_size |-> 0, size |-> 0]]
    ELSE LET replaced == ReplaceFirst(mem, old_string, new_string) IN
         [full_memory |-> replaced,
          memory_metadata |-> _update_metadata(replaced, meta, t),
          ret |-> [kind |-> "edited", previous_size |-> 0, size |-> 1]]

\* _edit_memory(old_string, new_string)
_edit_memory(mem, meta, old_string, new_string, t) ==
    IF ~Contains(mem, old_string)
    THEN [full_memory |-> mem, memory_metadata |-> meta,
          ret |-> [kind |-> "not_found", previous_size |-> 0, size |-> 0]]
    ELSE IF Count(mem, old_string) > 1
    THEN [full_memory |-> mem, memory_metadata |-> meta,
          ret |-> [kind |-> "ambiguous", previous_size |-> 0,
                   size |-> Count(mem, old_string)]]
    ELSE LET replaced == ReplaceFirst(mem, old_string, new_string)
             c == IF StrLen(replaced) > compression_threshold
                  THEN _compress_memory_if_needed(replaced, meta.compression_count)
                  ELSE [result |-> replaced, compression_count |-> meta.compression_count]
             meta1 == [meta EXCEPT !.compression_count = c.compression_count]
         IN [full_memory |-> c.result,
             memory_metadata |-> _update_metadata(c.result, meta1, t),
             ret |-> [kind |-> "edited", previous_size |-> 0, size |-> 1]]

\* _read_memory()
_read_memory(mem) ==
    IF IsBlank(mem) THEN [kind |-> "no_memory_placeholder", text |-> <<>>]
    ELSE [kind |-> "memory", text |-> mem]

\* _get_memory_status(): the figures of the report
_get_memory_status(mem, meta) ==
    [kind |-> "status",
     size |-> StrLen(mem),
     capacity |-> max_memory_size,
     last_updated |-> meta.last_updated,
     compression_count |-> meta.compression_count,
     near_capacity |-> StrLen(mem) > compression_threshold]

----------------------------------------------------------------------------
(* The arguments the calls are made with. *)

X(n) == Rep("x", n)
Z(n) == Rep("z", n)

\* n lines "z" * (first + 1), ..., "z" * (first + n), each ended by a newline
GrowingLines(first, n) ==
    [i \in 1..(2 * n) |->
        IF i % 2 = 1 THEN Piece("z", first + (i + 1) \div 2) ELSE Piece(NL, 1)]

\* 60 distinct lines, 25,890 characters; an important line leads them
ManyLines == Norm(Rep("KEY_FINDINGS", 1) \o X(3) \o Rep(NL, 1) \o GrowingLines(400, 60))

\* What write is called with.
Contents ==
    { <<>>,
      X(1),
      Norm(X(1) \o Rep(NL, 1) \o Z(1) \o Rep(SP, 1) \o X(1)),
      Norm(Rep(SP, 2) \o Rep(NL, 1)),
      X(max_memory_size),
      X(max_memory_size + 1),
      X(30000),
      Norm(X(9999) \o Rep(NL, 1) \o Z(9999) \o Rep(NL, 1) \o Rep("q", 10000)),
      Norm(X(14999) \o Rep(NL, 1) \o X(14999) \o Rep(NL, 1)),
      Norm(Z(23980) \o Rep(NL, 1) \o Z(23980)),
      Norm(X(2) \o Rep(SP, 3) \o Rep(NL, 2) \o Z(max_memory_size - 3)),
      ManyLines }

\* What edit is called with.
OldStrings == { <<>>, X(1), Z(1), Norm(X(1) \o Rep(NL, 1)), Rep("KEY_FINDINGS", 1) }
NewStrings == { <<>>, Z(1), X(21000), X(30000) }

----------------------------------------------------------------------------
(* The store as a state machine: one action per call of enhanced_memory. *)

NoPlan == [raised |-> FALSE, analysis |-> <<>>, todo |-> <<>>]

NoCall == [action |-> "none", content |-> <<>>, old_string |-> <<>>, new_string |-> <<>>,
           memory_before |-> <<>>, metadata_before |-> InitMetadata,
           compressed_before |-> FALSE]

ThisCall(action, content, old_string, new_string) ==
    [action |-> action, content |-> content, old_string |-> old_string,
     new_string |-> new_string,
     memory_before |-> full_memory, metadata_before |-> memory_metadata,
     compressed_before |-> compressed]

\* Whether the call that leads to the primed state ran a compression, and so
\* whether the buffer it stored is a result of _compress_memory_content.
Stored ==
    compressed' =
        IF memory_metadata'.compression_count > memory_metadata.compression_count THEN TRUE
        ELSE IF full_memory' # full_memory THEN FALSE
        ELSE compressed

MemoryIdle ==
    /\ full_memory = <<>>
    /\ memory_metadata = InitMetadata
    /\ ret = [kind |-> "none"]
    /\ call = NoCall
    /\ compressed = FALSE
    /\ now = 0

ParserIdle ==
    /\ response_lines = <<>>
    /\ output_text = <<>>
    /\ available_agents = <<>>
    /\ plan_result = NoPlan
    /\ stored_lines = <<>>
    /\ reextracted = <<>>
    /\ step = "idle"

ContextIdle ==
    /\ agent_memories = <<>>
    /\ conversation_history = <<>>
    /\ context_string = <<>>
    /\ context_step = "idle"

NoMessage == [failed |-> FALSE, content |-> <<>>, tool_calls |-> <<>>]

NoReturn == [kind |-> "none", plan |-> NoPlan]

PlannerIdle ==
    /\ memory_toolkit = FALSE
    /\ llm_type = "chat.completions"
    /\ memory_context = <<>>
    /\ user_query = <<>>
    /\ raw_response = NoMessage
    /\ tool_results = <<>>
    /\ follow_up_response = NoMessage
    /\ messages_with_tools = <<>>
    /\ pc = "idle"
    /\ model_calls = 0
    /\ executed = <<>>
    /\ persist = "none"
    /\ returned = NoReturn
    /\ turn = 0

SocketIdle ==
    /\ stream_tasks = <<>>
    /\ finish_requested = FALSE
    /\ sent = <<>>
    /\ received = <<>>

HistoryIdle ==
    /\ planner_history = <<>>
    /\ recorded = <<>>

SessionIdle ==
    /\ session_history = <<>>
    /\ clarification_count = 0
    /\ session_log = <<>>

MemoryInit ==
    MemoryIdle /\ ParserIdle /\ ContextIdle /\ PlannerIdle /\ SocketIdle /\ HistoryIdle /\ SessionIdle

\* enhanced_memory(action="read")
Read ==
    /\ now < MaxCalls
    /\ now' = now + 1
    /\ call' = ThisCall("read", <<>>, <<>>, <<>>)
    /\ ret' = _read_memory(full_memory)
    /\ UNCHANGED <<full_memory, memory_metadata, compressed>>
    /\ UNCHANGED <<parserVars, contextVars, plannerVars, socketVars, historyVars, sessionVars>>

\* enhanced_memory(action="write", content=content)
Write(content) ==
    /\ now < MaxCalls
    /\ now' = now + 1
    /\ call' = ThisCall("write", content, <<>>, <<>>)
    /\ LET r == _write_memory(full_memory, memory_metadata, content, now + 1) IN
       /\ full_memory' = r.full_memory
       /\ memory_metadata' = r.memory_metadata
       /\ ret' = r.ret
    /\ Stored
    /\ UNCHANGED <<parserVars, contextVars, plannerVars, socketVars, historyVars, sessionVars>>

\* enhanced_memory(action="edit", old_string=old_string, new_string=new_string)
Edit(old_string, new_string) ==
    /\ now < MaxCalls
    /\ now' = now + 1
    /\ call' = ThisCall("edit", <<>>, old_string, new_string)
    /\ LET r == _edit_memory(full_memory, memory_metadata, old_string, new_string, now + 1) IN
       /\ full_memory' = r.full_memory
       /\ memory_metadata' = r.memory_metadata
       /\ ret' = r.ret
    /\ Stored
    /\ UNCHANGED <<parserVars, contextVars, plannerVars, socketVars, historyVars, sessionVars>>

\* enhanced_memory(action="status")
Status ==
    /\ now < MaxCalls
    /\ now' = now + 1
    /\ call' = ThisCall("status", <<>>, <<>>, <<>>)
    /\ ret' = _get_memory_status(full_memory, memory_metadata)
    /\ UNCHANGED <<full_memory, memory_metadata, compressed>>
    /\ UNCHANGED <<parserVars, contextVars, plannerVars, socketVars, historyVars, sessionVars>>

\* enhanced_memory(action="compress"): the metadata keeps its total_size and
\* last_updated; only compression_count moves, inside _compress_memory_content
Compress ==
    /\ now < MaxCalls
    /\ now' = now + 1
    /\ call' = ThisCall("compress", <<>>, <<>>, <<>>)
    /\ LET c == _compress_memory_content(full_memory, memory_metadata.compression_count) IN
       /\ full_memory' = c.result
       /\ memory_metadata' = [memory_metadata EXCEPT !.compression_count = c.compression_count]
       /\ ret' = [kind |-> "compressed", previous_size |-> StrLen(full_memory),
                  size |-> StrLen(c.result)]
    /\ Stored
    /\ UNCHANGED <<parserVars, contextVars, plannerVars, socketVars, historyVars, sessionVars>>

\* enhanced_memory(action=<anything else>)
UnknownAction ==
    /\ now < MaxCalls
    /\ now' = now + 1
    /\ call' = ThisCall("unknown", <<>>, <<>>, <<>>)
    /\ ret' = [kind |-> "unknown_action"]
    /\ UNCHANGED <<full_memory, memory_metadata, compressed>>
    /\ UNCHANGED <<parserVars, contextVars, plannerVars, socketVars, historyVars, sessionVars>>

MemoryNext ==
    \/ Read
    \/ \E content \in Contents : Write(content)
    \/ \E old_string \in OldStrings, new_string \in NewStrings : Edit(old_string, new_string)
    \/ Status
    \/ Compress
    \/ UnknownAction

MemorySpec == MemoryInit /\ [][MemoryNext]_vars

----------------------------------------------------------------------------
(* planner.py: OutputParser.  The regular expressions are modelled by what  *)
(* re.search and re.findall do with them on a text of pieces.               *)

Whitespace == {SP, NL}

\* Names made of letters that end in "Agent", as [A-Za-z]+Agent asks.
AgentWords == {"ResearchAgent", "AnalysisAgent", "SkillsDevelopmentAgent",
               "SynthesisAgent", "WriterAgent"}

\* str.lower() of a name; re.IGNORECASE makes both spellings match.
Lower(name) ==
    CASE name = "ResearchAgent" -> "researchagent"
      [] name = "AnalysisAgent" -> "analysisagent"
      [] OTHER -> name

LowerWords == {Lower(w) : w \in {"ResearchAgent", "AnalysisAgent"}}

\* The pieces [A-Za-z] matches.
Letter == {"x", "z", "q"} \cup AgentWords \cup LowerWords

\* A name that is no regular expression: re.search raises re.error on a
\* pattern built from it ("missing ), unterminated subpattern").
UnterminatedNames == {"Dev(OpsAgent"}

analysis_header == "## Query Analysis"
plan_header == "## Agent Action Plan"

\* The pieces "##" stands at the start of.
StartsWithHashes(p) == (p.c = "#" /\ p.n >= 2) \/ p.c \in {analysis_header, plan_header}

\* Op(v), with v computed once.
With(v, Op(_)) == CHOOSE r \in {Op(x) : x \in {v}} : TRUE

SetMin(S) == With(S, LAMBDA T : CHOOSE x \in T : \A y \in T : x <= y)
SetMax(S) == With(S, LAMBDA T : CHOOSE x \in T : \A y \in T : x >= y)

\* The piece at index i; past the end, a piece of no class.
At(s, i) == IF i \in 1..Len(s) THEN s[i] ELSE Piece("", 0)

\* Where a greedy run of the class cls that starts at i ends: the first
\* index from i on whose piece is outside cls.
RunEnd(s, i, cls) ==
    With(i, LAMBDA from :
        IF from > Len(s) THEN from
        ELSE SetMin({j \in from..(Len(s) + 1) : At(s, j).c \notin cls}))

\* str.strip()
Strip(s) ==
    With({i \in 1..Len(s) : s[i].c \notin Whitespace}, LAMBDA inked :
        IF inked = {} THEN <<>> ELSE SubSeq(s, SetMin(inked), SetMax(inked)))

\* ^\s* under re.MULTILINE: only whitespace between the start of a line and u.
LineStart(s, u) ==
    \/ u = 1
    \/ s[u - 1].c = NL
    \/ s[u - 1].c = SP /\ (u = 2 \/ s[u - 2].c = NL)

\* Whether a whitespace run that starts at b holds a newline.
HasNewline(s, b) == \E h \in b..(RunEnd(s, b, Whitespace) - 1) : s[h].c = NL

\* \d+\.\s*\*\*([A-Za-z]+Agent)\*\*:   (bold)
\* \d+\.\s*([A-Za-z]+Agent):           (not bold)
\* matched at u: whether it matches, the name, the index of the colons.
NumberedHead(s, u, bold) ==
    With(RunEnd(s, u, Digit), LAMBDA d :
    With(RunEnd(s, d + 1, Whitespace), LAMBDA w :
    With(IF bold THEN w + 1 ELSE w, LAMBDA a :
    With(RunEnd(s, a, Letter), LAMBDA y :
    With(IF bold THEN y + 1 ELSE y, LAMBDA c :
        [ok |-> /\ d > u
                /\ At(s, d) = Piece(".", 1)
                /\ (bold => At(s, w) = Piece("*", 2))
                /\ y > a
                /\ At(s, y - 1).c \in AgentWords
                /\ (bold => At(s, y) = Piece("*", 2))
                /\ At(s, c).c = ":",
         name |-> SubSeq(s, a, y - 1),
         colon |-> c])))))

\* The lookahead that ends a numbered task, tried at the whitespace run
\* that starts at b:  \n\s*\d+\.\s*\*\*  or  \n\s*\d+\.\s*[A-Za-z]+Agent:
NextNumbered(s, b, bold) ==
    /\ At(s, b).c \in Whitespace
    /\ HasNewline(s, b)
    /\ With(RunEnd(s, b, Whitespace), LAMBDA j :
       With(RunEnd(s, j, Digit), LAMBDA d :
       With(RunEnd(s, d + 1, Whitespace), LAMBDA w :
       With(RunEnd(s, w, Letter), LAMBDA y :
            /\ d > j
            /\ At(s, d) = Piece(".", 1)
            /\ IF bold THEN At(s, w).c = "*" /\ At(s, w).n >= 2
               ELSE y > w /\ At(s, y - 1).c \in AgentWords /\ At(s, y).c = ":"))))

\* :\s*(.+?)(?=<lookahead>|\Z) under re.DOTALL, the colons at index c.
\* \s* is greedy, so the group starts at the first character that is not
\* whitespace; when only whitespace is left the group is its last character.
\* The group is returned stripped, as the code strips it.
NumberedGroup(s, c, bold) ==
    With(s[c].n - 1, LAMBDA extra :
    With(IF extra > 0 THEN c + 1 ELSE RunEnd(s, c + 1, Whitespace), LAMBDA g :
    With({b \in g..Len(s) : (b = 1 \/ s[b - 1].c \notin Whitespace)
                            /\ NextNumbered(s, b, bold)}, LAMBDA stops :
    With(IF stops = {} THEN Len(s) + 1 ELSE SetMin(stops), LAMBDA e :
        [ok |-> extra > 0 \/ c < Len(s),
         task |-> Strip(Rep(":", extra) \o SubSeq(s, g, e - 1)),
         end |-> e]))))

\* Whether the numbered pattern matches with its head at u.
NumberedAt(s, u, bold) ==
    /\ LineStart(s, u)
    /\ With(NumberedHead(s, u, bold), LAMBDA h :
            h.ok /\ (s[h.colon].n > 1 \/ h.colon < Len(s)))

Subtask(agent_name, task) == [agent_name |-> agent_name, task |-> task, completed |-> FALSE]

\* re.findall(numbered_pattern, s, re.MULTILINE | re.DOTALL) from index
\* from on, each match as the Subtask the code makes of it.
RECURSIVE NumberedTasks(_, _, _)
NumberedTasks(s, from, bold) ==
    With({u \in from..Len(s) : NumberedAt(s, u, bold)}, LAMBDA heads :
        IF heads = {} THEN <<>>
        ELSE With(NumberedHead(s, SetMin(heads), bold), LAMBDA h :
             With(NumberedGroup(s, h.colon, bold), LAMBDA grp :
                <<Subtask(h.name, grp.task)>> \o NumberedTasks(s, grp.end, bold))))

\* -\s*([A-Za-z]+Agent):  matched at u
BulletHead(s, u) ==
    With(RunEnd(s, u + 1, Whitespace), LAMBDA w :
    With(RunEnd(s, w, Letter), LAMBDA y :
        [ok |-> /\ At(s, u) = Piece("-", 1)
                /\ y > w
                /\ At(s, y - 1).c \in AgentWords
                /\ At(s, y).c = ":",
         name |-> SubSeq(s, w, y - 1),
         colon |-> y]))

\* :\s*(.+?)(?=\n\s*-\s*[A-Za-z]+Agent:|\s*$) without re.DOTALL: the group
\* stays on one line and stops before the whitespace that ends the line.
\* When only whitespace is left, the group is one of its spaces, if any.
BulletGroup(s, c) ==
    With(s[c].n - 1, LAMBDA extra :
    With(IF extra > 0 THEN c + 1 ELSE RunEnd(s, c + 1, Whitespace), LAMBDA g :
    With({b \in g..Len(s) : s[b].c = NL}, LAMBDA breaks :
    With(IF breaks = {} THEN Len(s) + 1 ELSE SetMin(breaks), LAMBDA e :
        [ok |-> \/ extra > 0
                \/ g <= Len(s)
                \/ \E h \in (c + 1)..Len(s) : s[h].c = SP,
         task |-> Strip(Rep(":", extra) \o SubSeq(s, g, e - 1)),
         end |-> e]))))

\* Whether the bullet pattern matches with its head at u.
BulletAt(s, u) ==
    /\ LineStart(s, u)
    /\ With(BulletHead(s, u), LAMBDA h : h.ok /\ BulletGroup(s, h.colon).ok)

\* re.findall(task_pattern, s, re.MULTILINE) from index from on
RECURSIVE BulletTasks(_, _)
BulletTasks(s, from) ==
    With({u \in from..Len(s) : BulletAt(s, u)}, LAMBDA heads :
        IF heads = {} THEN <<>>
        ELSE With(BulletHead(s, SetMin(heads)), LAMBDA h :
             With(BulletGroup(s, h.colon), LAMBDA grp :
                <<Subtask(h.name, grp.task)>> \o BulletTasks(s, grp.end))))

\* Whether the piece spells the name, in either case (re.IGNORECASE).
Spells(p, name) == p.c = name \/ p.c = Lower(name)

\* rf'{agent_name}[\s:]+(.*?)(?=(?:{"|".join(agent_names)}|$))' searched in
\* s under re.DOTALL | re.IGNORECASE: whether it matches, and the group,
\* stripped.  The search stops at the first mention that whitespace or a
\* colon follows; the group runs to the next mention of any name.
Mention(s, agent_name, agent_names) ==
    With({i \in 1..Len(s) : Spells(s[i], agent_name)
                            /\ At(s, i + 1).c \in Whitespace \cup {":"}}, LAMBDA found :
        IF found = {} THEN [match |-> FALSE, task |-> <<>>]
        ELSE With(RunEnd(s, SetMin(found) + 1, Whitespace \cup {":"}), LAMBDA g :
             With({j \in g..Len(s) :
                    \E k \in 1..Len(agent_names) : Spells(s[j], agent_names[k])}, LAMBDA named :
             With(IF named = {} THEN Len(s) + 1 ELSE SetMin(named), LAMBDA e :
                [match |-> TRUE, task |-> Strip(SubSeq(s, g, e - 1))]))))

\* <header>\s*\n(.*?)(?=<lookahead>|\Z) searched in s under re.DOTALL:
\* whether it matches, and the group, stripped.  The header counts only
\* where the whitespace after it holds a newline.  The group ends at a
\* newline that "##" follows or, with numbers, that "<digits>." follows.
Section(s, header, numbers) ==
    With({i \in 1..Len(s) : s[i].c = header /\ HasNewline(s, i + 1)}, LAMBDA found :
        IF found = {} THEN [match |-> FALSE, group |-> <<>>]
        ELSE With(RunEnd(s, SetMin(found) + 1, Whitespace), LAMBDA g :
             With({b \in g..Len(s) :
                    /\ s[b].c = NL
                    /\ \/ StartsWithHashes(At(s, b + 1))
                       \/ /\ numbers
                          /\ RunEnd(s, b + 1, Digit) > b + 1
                          /\ At(s, RunEnd(s, b + 1, Digit)).c = "."}, LAMBDA stops :
             With(IF stops = {} THEN Len(s) + 1 ELSE SetMin(stops), LAMBDA e :
                [match |-> TRUE, group |-> Strip(SubSeq(s, g, e - 1))]))))

\* OutputParser._extract_analysis
_extract_analysis(text) ==
    With(Section(text, analysis_header, TRUE), LAMBDA found :
        IF found.match THEN found.group ELSE <<>>)

task_desc_limit == 150

default_agent_names == <<"ResearchAgent", "AnalysisAgent", "SkillsDevelopmentAgent", "SynthesisAgent">>

fallback_task == <<Piece("Research SAP career information and provide relevant guidance", 1)>>

\* The tasks of the agents that the text mentions, in roster order, from
\* the k-th name on; an agent whose group is empty gets none.
RECURSIVE MentionTasks(_, _, _)
MentionTasks(text, agent_names, k) ==
    IF k > Len(agent_names) THEN <<>>
    ELSE With(Mention(text, agent_names[k], agent_names), LAMBDA found :
            IF found.match /\ found.task # <<>>
            THEN <<Subtask(<<Piece(agent_names[k], 1)>>, found.task)>>
            ELSE <<>>)
         \o MentionTasks(text, agent_names, k + 1)

\* _extract_plan_fallback without its simple numbered pattern: a numbered
\* line without bold is left to the bullet pattern and the agent mentions.
_extract_plan_fallback_without_simple_numbered(text, agents) ==
    With(IF agents # <<>> THEN agents ELSE default_agent_names, LAMBDA agent_names :
    With(NumberedTasks(text, 1, TRUE), LAMBDA numbered_matches :
        IF numbered_matches # <<>> THEN [raised |-> FALSE, todo |-> numbered_matches]
        ELSE
    With(BulletTasks(text, 1), LAMBDA task_matches :
        IF task_matches # <<>> THEN [raised |-> FALSE, todo |-> task_matches]
        ELSE IF \E k \in 1..Len(agent_names) : agent_names[k] \in UnterminatedNames
        THEN [raised |-> TRUE, todo |-> <<>>]
        ELSE
    With(MentionTasks(text, agent_names, 1), LAMBDA tasks :
        IF tasks # <<>> THEN [raised |-> FALSE, todo |-> tasks]
        ELSE [raised |-> FALSE,
              todo |-> <<Subtask(<<Piece(agent_names[1], 1)>>, fallback_task)>>]))))

\* OutputParser._extract_plan_fallback: what it returns, or that it raised.
_extract_plan_fallback(text, agents) ==
    With(IF agents # <<>> THEN agents ELSE default_agent_names, LAMBDA agent_names :
    With(NumberedTasks(text, 1, TRUE), LAMBDA numbered_matches :
        IF numbered_matches # <<>> THEN [raised |-> FALSE, todo |-> numbered_matches]
        ELSE
    With(NumberedTasks(text, 1, FALSE), LAMBDA simple_matches :
        IF simple_matches # <<>> THEN [raised |-> FALSE, todo |-> simple_matches]
        ELSE
    With(BulletTasks(text, 1), LAMBDA task_matches :
        IF task_matches # <<>> THEN [raised |-> FALSE, todo |-> task_matches]
        ELSE IF \E k \in 1..Len(agent_names) : agent_names[k] \in UnterminatedNames
        THEN [raised |-> TRUE, todo |-> <<>>]
        ELSE
    With(MentionTasks(text, agent_names, 1), LAMBDA tasks :
        IF tasks # <<>> THEN [raised |-> FALSE, todo |-> tasks]
        ELSE [raised |-> FALSE,
              todo |-> <<Subtask(<<Piece(agent_names[1], 1)>>, fallback_task)>>])))))

\* OutputParser._extract_plan
_extract_plan(text, agents) ==
    With(Section(text, plan_header, FALSE), LAMBDA found :
        IF ~found.match THEN _extract_plan_fallback(text, agents)
        ELSE
    With(found.group, LAMBDA plan_content :
    With(NumberedTasks(plan_content, 1, TRUE), LAMBDA numbered_matches :
        IF numbered_matches # <<>> THEN [raised |-> FALSE, todo |-> numbered_matches]
        ELSE
    With(NumberedTasks(plan_content, 1, FALSE), LAMBDA simple_matches :
        IF simple_matches # <<>> THEN [raised |-> FALSE, todo |-> simple_matches]
        ELSE _extract_plan_fallback(text, agents)))))

\* OutputParser.parse: the CreatePlanResult, or that the call raised.
parse(text, agents) ==
    With(_extract_plan(text, agents), LAMBDA plan :
        [raised |-> plan.raised,
         analysis |-> IF plan.raised THEN <<>> ELSE _extract_analysis(text),
         todo |-> plan.todo])

\* A task line without the bold marks around the agent name.
task_line_without_bold(i, task) ==
    LET task_desc == IF StrLen(task.task) > task_desc_limit
                     THEN Cat(FirstChars(task.task, task_desc_limit), Rep(".", 3))
                     ELSE task.task
    IN  Norm(<<Piece(ToString(i), 1), Piece(".", 1), Piece(SP, 1)>>
             \o task.agent_name
             \o <<Piece(":", 1), Piece(SP, 1)>>
             \o task_desc)

\* PlannerAgent._store_planning_insights: the entry it writes for a task,
\* f"{i+1}. **{task.agent_name}**: {task_desc}", the task cut to 150
\* characters with "..." after a cut.
task_line(i, task) ==
    LET task_desc == IF StrLen(task.task) > task_desc_limit
                     THEN Cat(FirstChars(task.task, task_desc_limit), Rep(".", 3))
                     ELSE task.task
    IN  Norm(<<Piece(ToString(i), 1), Piece(".", 1), Piece(SP, 1), Piece("*", 2)>>
             \o task.agent_name
             \o <<Piece("*", 2), Piece(":", 1), Piece(SP, 1)>>
             \o task_desc)

\* chr(10).join(task_lines)
task_lines(todo) == JoinNL([i \in 1..Len(todo) |-> task_line(i, todo[i])])

----------------------------------------------------------------------------
(* The texts and rosters the parser is given. *)

Line(kind, num, agent, body) == [kind |-> kind, num |-> num, agent |-> agent, body |-> body]

Words(a, b) == Norm(Rep(a, 1) \o Rep(SP, 1) \o Rep(b, 1))

\* The text of a line.
RenderLine(l) ==
    Norm(CASE l.kind = "numbered" ->
                <<Piece(l.num, 1), Piece(".", 1), Piece(SP, 1), Piece(l.agent, 1),
                  Piece(":", 1), Piece(SP, 1)>> \o l.body
           [] l.kind = "bold" ->
                <<Piece(l.num, 1), Piece(".", 1), Piece(SP, 1), Piece("*", 2),
                  Piece(l.agent, 1), Piece("*", 2), Piece(":", 1), Piece(SP, 1)>> \o l.body
           [] l.kind = "bullet" ->
                <<Piece("-", 1), Piece(SP, 1), Piece(l.agent, 1), Piece(":", 1),
                  Piece(SP, 1)>> \o l.body
           [] l.kind = "heading" -> <<Piece(l.agent, 1)>> \o l.body
           [] l.kind = "analysis_block" ->
                <<Piece("<analysis>", 1)>> \o l.body \o <<Piece("</analysis>", 1)>>
           [] l.kind = "plan_block" ->
                <<Piece("<plan>", 1), Piece("json:[{agent_name:", 1), Piece(l.agent, 1),
                  Piece("json:,task:", 1)>> \o l.body
                \o <<Piece("json:,completed:false}]", 1), Piece("</plan>", 1)>>
           [] OTHER -> l.body)

\* The response_lines a response of the model is made of.
LineChoices ==
    { Line("numbered", "1", "ResearchAgent", Words("x", "z")),
      Line("numbered", "2", "AnalysisAgent", Rep("q", 1)),
      Line("numbered", "2", "AnalysisAgent", <<>>),
      Line("bold", "1", "ResearchAgent", Rep("x", 1)),
      Line("bold", "2", "AnalysisAgent", Words("z", "q")),
      Line("bold", "1", "AnalysisAgent", Rep("x", task_desc_limit + 1)),
      Line("bold", "3", "x", Rep("q", 1)),
      Line("bullet", "", "ResearchAgent", Rep("x", 1)),
      Line("bullet", "", "WriterAgent", Norm(Rep("z", 1) \o Rep(SP, 1))),
      Line("heading", "", plan_header, <<>>),
      Line("heading", "", analysis_header, <<>>),
      Line("prose", "", "", Norm(Rep("#", 2) \o Rep(SP, 1) \o Rep("x", 1))),
      Line("analysis_block", "", "", Words("x", "z")),
      Line("plan_block", "", "ResearchAgent", Rep("z", 1)),
      Line("prose", "", "", <<>>),
      Line("prose", "", "", Words("x", "z")),
      Line("prose", "", "", Norm(Rep("x", 1) \o Rep(SP, 1) \o Rep("ResearchAgent", 1)
                                 \o Rep(":", 1) \o Rep(SP, 1) \o Rep("z", 1) \o Rep(SP, 1)
                                 \o Rep("AnalysisAgent", 1) \o Rep(SP, 1) \o Rep("q", 1))),
      Line("prose", "", "", Words("researchagent", "q")),
      Line("prose", "", "", Rep("ResearchAgent", 1)) }

\* The responses: up to MaxLines response_lines.
Responses == UNION {[1..k -> LineChoices] : k \in 0..MaxLines}

RenderText(ls) == JoinNL([i \in 1..Len(ls) |-> RenderLine(ls[i])])

\* The rosters: the names of available_agents, in order.
Rosters == { <<"ResearchAgent", "AnalysisAgent">>,
             <<"AnalysisAgent", "ResearchAgent">>,
             <<>>,
             <<"ResearchAgent", "Dev(OpsAgent">> }

----------------------------------------------------------------------------
(* The parser at work in PlannerAgent.create_plan: the response is parsed, *)
(* the plan's task lines are written for the planning session, and the     *)
(* task lines are read back with the numbered bold pattern.                *)

ParserInit ==
    /\ response_lines \in Responses
    /\ output_text = RenderText(response_lines)
    /\ available_agents \in Rosters
    /\ plan_result = NoPlan
    /\ stored_lines = <<>>
    /\ reextracted = <<>>
    /\ step = "response"
    /\ MemoryIdle
    /\ ContextIdle
    /\ PlannerIdle
    /\ SocketIdle
    /\ HistoryIdle
    /\ SessionIdle

\* plan_result = self.output_parser.parse(response_content)
ParseResponse ==
    /\ step = "response"
    /\ plan_result' = parse(output_text, available_agents)
    /\ step' = "parsed"
    /\ UNCHANGED <<response_lines, output_text, available_agents, stored_lines, reextracted>>
    /\ UNCHANGED <<memVars, contextVars, plannerVars, socketVars, historyVars, sessionVars>>

\* _store_planning_insights(task_recorder.task, plan_result): the task response_lines
StorePlanningInsights ==
    /\ step = "parsed"
    /\ ~plan_result.raised
    /\ stored_lines' = task_lines(plan_result.todo)
    /\ step' = "stored"
    /\ UNCHANGED <<response_lines, output_text, available_agents, plan_result, reextracted>>
    /\ UNCHANGED <<memVars, contextVars, plannerVars, socketVars, historyVars, sessionVars>>

\* re.findall(numbered_bold_pattern, ...) on the task response_lines
Reextract ==
    /\ step = "stored"
    /\ reextracted' = NumberedTasks(stored_lines, 1, TRUE)
    /\ step' = "reextracted"
    /\ UNCHANGED <<response_lines, output_text, available_agents, plan_result, stored_lines>>
    /\ UNCHANGED <<memVars, contextVars, plannerVars, socketVars, historyVars, sessionVars>>

ParserNext ==
    \/ ParseResponse
    \/ StorePlanningInsights
    \/ Reextract

ParserSpec == ParserInit /\ [][ParserNext]_vars

----------------------------------------------------------------------------
(* Claims about the memory store. *)

\* A call that stores a buffer.
Mutating == call.action \in {"write", "edit", "compress"}

\* C1: after any write, edit or compress, len(full_memory) <= max_memory_size.
C1_WithinCapacity == Mutating => StrLen(full_memory) <= max_memory_size

StoreUnchanged ==
    /\ full_memory = call.memory_before
    /\ memory_metadata = call.metadata_before

\* C3: edit(old, new) changes the store only when old occurs exactly once in the
\* buffer: with no occurrence it returns the not-found status, with more than one
\* the ambiguous-match status, and in both cases the buffer and the metadata are
\* what they were before the call.
C3_EditOnlyUniqueMatch ==
    call.action = "edit" =>
        LET k == Count(call.memory_before, call.old_string) IN
        /\ k = 0 => ret.kind = "not_found" /\ StoreUnchanged
        /\ k > 1 => ret.kind = "ambiguous" /\ StoreUnchanged
        /\ ~StoreUnchanged => k = 1 /\ ret.kind = "edited"

\* An edit whose old_string occurs twice in a buffer has been refused.
C3_AmbiguousEditRefused ==
    /\ call.action = "edit"
    /\ Count(call.memory_before, call.old_string) = 2
    /\ ret.kind = "ambiguous"
    /\ full_memory # <<>>

\* A buffer without the compression marker it starts with.
StartsWithMarker(s) ==
    /\ Len(s) >= 3
    /\ s[1] = Piece(NL, 1) /\ IsMarkerText(s[2].c) /\ s[2].n = 1 /\ s[3].c = NL
WithoutMarker(s) ==
    IF StartsWithMarker(s)
    THEN Norm(<<Piece(NL, s[3].n - 1)>> \o SubSeq(s, 4, Len(s)))
    ELSE s

\* C4: compression is idempotent: compressing a buffer that compression
\* produced gives the same content, and so the same length, apart from the
\* marker line.
C4_CompressIdempotent ==
    (call.action = "compress" /\ call.compressed_before) =>
        WithoutMarker(full_memory) = WithoutMarker(call.memory_before)

\* C5: after writing a 30,000-character string, status() reports a size of at
\* most 24000 and a compression count of at least 1.
C5_Write30000 ==
    (call.action = "write" /\ StrLen(call.content) = 30000) =>
        LET status == _get_memory_status(full_memory, memory_metadata) IN
        /\ status.size <= 24000
        /\ status.compression_count >= 1

----------------------------------------------------------------------------
(* Claims about the plan extractor. *)

Parsed == step \in {"parsed", "stored", "reextracted"}

InRoster(name) == \E k \in 1..Len(available_agents) : available_agents[k] = name

\* C2: OutputParser.parse is total: for every text and every roster it
\* returns, without raising, a result whose todo list has at least one
\* subtask.
C2_ParseTotal ==
    Parsed => ~plan_result.raised /\ Len(plan_result.todo) >= 1

\* The response is a structured block, as _format_planner_examples writes
\* one: <analysis>X</analysis> and <plan>[one record]</plan>, the agent of
\* the record in the roster.
StructuredBlock ==
    /\ Len(response_lines) = 2
    /\ response_lines[1].kind = "analysis_block"
    /\ response_lines[2].kind = "plan_block"
    /\ InRoster(response_lines[2].agent)

\* C6: from a structured block with analysis X and one plan record
\* {agent_name: A, task: t, completed: false}, A in the roster, extraction
\* recovers the analysis X and exactly the one subtask {A, t, false}.
C6_StructuredBlockRecovered ==
    (Parsed /\ StructuredBlock) =>
        /\ ~plan_result.raised
        /\ plan_result.analysis = response_lines[1].body
        /\ plan_result.todo = <<Subtask(<<Piece(response_lines[2].agent, 1)>>,
                                        response_lines[2].body)>>

\* The response is made only of numbered lines "<i>. <AgentName>: <text>",
\* every name in the roster, every text non-empty and trimmed.
NumberedOnly ==
    /\ response_lines # <<>>
    /\ \A i \in 1..Len(response_lines) :
        /\ response_lines[i].kind = "numbered"
        /\ InRoster(response_lines[i].agent)
        /\ response_lines[i].body # <<>>
        /\ Strip(response_lines[i].body) = response_lines[i].body

PlainProse ==
    /\ response_lines # <<>>
    /\ \A i \in 1..Len(response_lines) :
        /\ response_lines[i].kind = "prose"
        /\ \A j \in 1..Len(response_lines[i].body) :
             response_lines[i].body[j].c \notin AgentWords \cup LowerWords

\* C8: when the text has no plan structure and mentions no roster agent,
\* extraction returns exactly one subtask, for the first agent of the
\* roster, with the generic fallback task and completed = false.
C8_MinimalFallback ==
    (Parsed /\ PlainProse /\ available_agents # <<>>) =>
        /\ ~plan_result.raised
        /\ plan_result.todo = <<Subtask(<<Piece(available_agents[1], 1)>>, fallback_task)>>

\* C9: writing the subtasks of a plan as the task lines of a planning
\* session and reading them back with the numbered bold pattern gives the
\* same ordered list of subtasks.
C9_RoundTrip ==
    step = "reextracted" => reextracted = plan_result.todo

\* A subtask the task lines can hold whole: its agent name is letters that
\* end in "Agent", its task is trimmed, not empty, at most 150 characters
\* long, and no line of it begins a numbered bold entry ("<n>. **").
FitsTaskLine(task) ==
    /\ task.agent_name # <<>>
    /\ \A j \in 1..Len(task.agent_name) : task.agent_name[j].c \in Letter
    /\ task.agent_name[Len(task.agent_name)].c \in AgentWords
    /\ task.task # <<>>
    /\ Strip(task.task) = task.task
    /\ StrLen(task.task) <= task_desc_limit
    /\ \A b \in 1..Len(task.task) : ~NextNumbered(task.task, b, TRUE)

\* C9, amended: the round trip gives the same ordered list of subtasks for
\* every plan whose subtasks each fit a task line.
C9_RoundTripOfFittingTasks ==
    (step = "reextracted" /\ \A i \in 1..Len(plan_result.todo) : FitsTaskLine(plan_result.todo[i]))
        => reextracted = plan_result.todo

\* A plan of two fitting subtasks has made the round trip.
C9_TwoTasksRoundTripped ==
    /\ step = "reextracted"
    /\ Len(plan_result.todo) = 2
    /\ \A i \in 1..Len(plan_result.todo) : FitsTaskLine(plan_result.todo[i])
    /\ Len(reextracted) = 2

----------------------------------------------------------------------------
(* context_builder.py: ContextBuilder *)

max_context_length == 24000
max_conversation_history == 10
user_input_limit == 300
response_limit == 500
key_line_count == 20
key_line_limit == 500

\* str(k)
RECURSIVE Decimal(_)
Decimal(k) ==
    IF k < 10 THEN Rep(ToString(k), 1)
    ELSE Norm(Decimal(k \div 10) \o Rep(ToString(k % 10), 1))

\* agent_name.upper()
Upper(agent_name) ==
    CASE agent_name = "ResearchAgent" -> "RESEARCHAGENT"
      [] agent_name = "AnalysisAgent" -> "ANALYSISAGENT"
      [] agent_name = "SkillsDevelopmentAgent" -> "SKILLSDEVELOPMENTAGENT"
      [] agent_name = "SynthesisAgent" -> "SYNTHESISAGENT"
      [] OTHER -> agent_name

\* "\n\n".join(parts)
RECURSIVE JoinBlankRaw(_)
JoinBlankRaw(parts) ==
    IF parts = <<>> THEN <<>>
    ELSE IF Len(parts) = 1 THEN parts[1]
    ELSE JoinBlankRaw(Left(parts)) \o Rep(NL, 2) \o JoinBlankRaw(Right(parts))

JoinBlank(parts) == Norm(JoinBlankRaw(parts))

\* f"Q{i}: {user_input}" and f"A{i}: {response}"
Labelled(letter, i, text) ==
    Norm(Rep(letter, 1) \o Decimal(i) \o Rep(":", 1) \o Rep(SP, 1) \o text)

\* The parts for the conversation history: the heading, then three parts for
\* each of the last 10 exchanges.
history_parts(history) ==
    LET recent_history == LastLines(history, max_conversation_history) IN
    IF history = <<>> THEN <<>>
    ELSE << Rep("RECENT CONVERSATION HISTORY:", 1) >>
         \o [j \in 1..(3 * Len(recent_history)) |->
               LET i == (j + 2) \div 3
                   exchange == recent_history[i]
               IN  CASE j % 3 = 1 ->
                          Labelled("Q", i, FirstChars(exchange.user_input, user_input_limit))
                     [] j % 3 = 2 ->
                          Labelled("A", i, FirstChars(exchange.response, response_limit))
                     [] OTHER -> <<>>]

KeyLine(line) == ~IsBlank(line) /\ StrLen(line) < key_line_limit

\* The parts for one agent memory: none when the memory is blank; else the
\* heading, the key lines of the last 20 lines joined (if any), and "".
memory_parts(agent_name, memory) ==
    LET memory_lines == SplitNL(memory)
        kept == SelectSeq(LastLines(memory_lines, key_line_count), KeyLine)
        key_lines == [i \in 1..Len(kept) |-> Strip(kept[i])]
    IN  IF IsBlank(memory) THEN <<>>
        ELSE << <<Piece(Upper(agent_name), 1), Piece("_MEMORY:", 1)>> >>
             \o (IF key_lines # <<>> THEN <<JoinNL(key_lines)>> ELSE <<>>)
             \o << <<>> >>

\* The parts for the agent memories, in the order of the dict, from the k-th.
RECURSIVE memories_parts(_, _)
memories_parts(memories, k) ==
    IF k > Len(memories) THEN <<>>
    ELSE memory_parts(memories[k].agent_name, memories[k].memory)
         \o memories_parts(memories, k + 1)

\* The notice _truncate_context puts before a truncated context: the
\* warning sign and " Context truncated for token limits", then "\n\n".
truncation_notice == <<Piece("Context truncated for token limits", 1), Piece(NL, 2)>>

\* sum(len(line) + 1 for line in some_lines)
RECURSIVE LengthTaken(_)
LengthTaken(some_lines) ==
    IF some_lines = <<>> THEN 0
    ELSE IF Len(some_lines) = 1 THEN StrLen(some_lines[1]) + 1
    ELSE LengthTaken(Left(some_lines)) + LengthTaken(Right(some_lines))

\* _truncate_context that keeps the last max_context_length - 1 characters,
\* whether or not they begin at the start of a line.
_truncate_context_by_characters(context) ==
    IF StrLen(context) <= max_context_length THEN context
    ELSE Cat(truncation_notice, LastChars(context, max_context_length - 1))

\* ContextBuilder._truncate_context: the loop takes lines from the end while
\* current_length + len(line) + 1 <= max_context_length, and stops at the
\* first line that does not fit.
_truncate_context(context) ==
    LET all_lines == SplitNL(context)
        \* current_length after the last k lines were taken
        Taken(k) == LengthTaken(LastLines(all_lines, k))
        fitting == {k \in 0..Len(all_lines) : Taken(k) <= max_context_length}
        truncated_lines == LastLines(all_lines, SetMax(fitting))
        result == JoinNL(truncated_lines)
    IN  IF StrLen(context) <= max_context_length THEN context
        ELSE IF StrLen(result) < StrLen(context) THEN Cat(truncation_notice, result)
        ELSE result

\* ContextBuilder.build_memory_context_string
build_memory_context_string(memories, history) ==
    LET context_parts == history_parts(history) \o memories_parts(memories, 1)
        built == JoinBlank(context_parts)
    IN  IF StrLen(built) > max_context_length THEN _truncate_context(built)
        ELSE built

----------------------------------------------------------------------------
(* The agent memories and conversation histories the builder is given. *)

\* An agent memory of 20 lines of 499 characters: every line is a key line.
FullMemory == JoinNL([i \in 1..key_line_count |-> X(key_line_limit - 1)])

\* An agent memory of 22 lines: one before the last 20, one too long, one
\* blank, two short ones to strip, and 17 of 499 characters with their
\* leading spaces.
MixedMemory ==
    JoinNL(<< Z(3), X(key_line_limit), Rep(SP, 2),
              Norm(Rep(SP, 1) \o Words("x", "z") \o Rep(SP, 2)), Rep("q", 1) >>
           \o [i \in 1..17 |-> Norm(Rep(SP, 2) \o X(key_line_limit - 3))])

MemoryChoices == { Norm(Rep(SP, 1) \o Rep(NL, 1)), FullMemory, MixedMemory }

\* agent_memories as the list of its items, the first MaxAgents agents.
MemoryMaps ==
    { [k \in 1..MaxAgents |-> [agent_name |-> default_agent_names[k], memory |-> choice[k]]] :
        choice \in [1..MaxAgents -> MemoryChoices] }

\* The k-th exchange of a conversation, short or long.
Exchange(k, long) ==
    IF long
    THEN [user_input |-> Norm(Decimal(k) \o Rep(SP, 1) \o X(user_input_limit)),
          response |-> Norm(Decimal(k) \o Rep(SP, 1) \o Z(response_limit))]
    ELSE [user_input |-> Norm(Decimal(k) \o Rep(SP, 1) \o Rep("x", 1)),
          response |-> Norm(Decimal(k) \o Rep(SP, 1) \o Rep("z", 1))]

Histories == { [k \in 1..n |-> Exchange(k, long)] : n \in 0..MaxExchanges, long \in BOOLEAN }

----------------------------------------------------------------------------
(* One call of build_memory_context_string. *)

ContextInit ==
    /\ agent_memories \in MemoryMaps
    /\ conversation_history \in Histories
    /\ context_string = <<>>
    /\ context_step = "inputs"
    /\ MemoryIdle
    /\ ParserIdle
    /\ PlannerIdle
    /\ SocketIdle
    /\ HistoryIdle
    /\ SessionIdle

BuildMemoryContextString ==
    /\ context_step = "inputs"
    /\ context_string' = build_memory_context_string(agent_memories, conversation_history)
    /\ context_step' = "built"
    /\ UNCHANGED <<agent_memories, conversation_history>>
    /\ UNCHANGED <<memVars, parserVars, plannerVars, socketVars, historyVars, sessionVars>>

ContextNext == BuildMemoryContextString

ContextSpec == ContextInit /\ [][ContextNext]_vars

----------------------------------------------------------------------------
(* Claims about the context builder. *)

\* C10: the string build_memory_context_string returns is never longer than
\* max_context_length (24000), also when it was truncated and the
\* truncation notice was put before it.
C10_ContextWithinLimit ==
    context_step = "built" => StrLen(context_string) <= max_context_length

\* The part of the context that holds the H = max_conversation_history most
\* recent exchanges of the history, in their order, numbered from 1, each
\* user_input cut to its first 300 characters and each response to its
\* first 500.
RecentExchanges(history) ==
    LET first == Len(history) - max_conversation_history IN
    JoinBlank(<< Rep("RECENT CONVERSATION HISTORY:", 1) >>
              \o [j \in 1..(3 * max_conversation_history) |->
                    CASE j % 3 = 1 ->
                           Labelled("Q", (j + 2) \div 3,
                                    FirstChars(history[first + (j + 2) \div 3].user_input,
                                               user_input_limit))
                      [] j % 3 = 2 ->
                           Labelled("A", (j + 2) \div 3,
                                    FirstChars(history[first + (j + 2) \div 3].response,
                                               response_limit))
                      [] OTHER -> <<>>])

\* The history was longer than max_conversation_history.
LongHistory == context_step = "built" /\ Len(conversation_history) > max_conversation_history

\* C11: given a history longer than H = 10, the context begins with the H
\* most recent exchanges, in their order, each user_input cut to 300
\* characters and each response to 500, and holds no other exchange: there
\* are exactly H questions in it.
C11_RecentExchangesKept ==
    LongHistory =>
        /\ FirstChars(context_string, StrLen(RecentExchanges(conversation_history)))
             = RecentExchanges(conversation_history)
        /\ Cardinality({i \in 1..Len(context_string) : context_string[i].c = "Q"})
             = max_conversation_history

\* The same, for the contexts that needed no truncation.
C11_RecentExchangesKeptUntruncated ==
    (LongHistory /\ context_string[1].c # "Context truncated for token limits")
        => C11_RecentExchangesKept

----------------------------------------------------------------------------
(* Claims about the order and the fields of the subtasks. *)

\* Whether the agent name stands in the text at index i: its pieces one
\* after the other, in either case.
AppearsAt(text, agent_name, i) ==
    /\ i + Len(agent_name) - 1 <= Len(text)
    /\ \A k \in 1..Len(agent_name) :
        /\ Spells(text[i + k - 1], agent_name[k].c)
        /\ text[i + k - 1].n >= agent_name[k].n

\* Where the agent first appears in the text; past the end when it does not.
FirstAppearance(text, agent_name) ==
    SetMin({i \in 1..Len(text) : AppearsAt(text, agent_name, i)} \cup {Len(text) + 1})

\* The subtasks that are the first of their agent in the plan.
FirstOfAgent(todo) ==
    {i \in 1..Len(todo) : \A h \in 1..(i - 1) : todo[h].agent_name # todo[i].agent_name}

\* C12: in every plan extraction returns, the subtasks stand in the order
\* in which their agents first appear in the source text.
C12_OrderOfFirstAppearance ==
    (Parsed /\ ~plan_result.raised) =>
        \A i, j \in FirstOfAgent(plan_result.todo) :
            i < j => FirstAppearance(output_text, plan_result.todo[i].agent_name)
                       <= FirstAppearance(output_text, plan_result.todo[j].agent_name)

\* C13: every subtask extraction returns has an agent_name of the roster,
\* a task that is not empty after trimming, and completed = false.
C13_SubtaskFields ==
    (Parsed /\ ~plan_result.raised) =>
        \A i \in 1..Len(plan_result.todo) :
            /\ Len(plan_result.todo[i].agent_name) = 1
            /\ plan_result.todo[i].agent_name[1].n = 1
            /\ InRoster(plan_result.todo[i].agent_name[1].c)
            /\ Strip(plan_result.todo[i].task) # <<>>
            /\ plan_result.todo[i].completed = FALSE

----------------------------------------------------------------------------
(* The status string of a write. *)

\* The words of a status, one space between them.
RECURSIVE Sentence(_)
Sentence(words) ==
    IF words = <<>> THEN <<>>
    ELSE IF Len(words) = 1 THEN words[1]
    ELSE Sentence(Left(words)) \o Rep(SP, 1) \o Sentence(Right(words))

\* "existing" and "size": the letters of the texts of the model stand in
\* them as pieces of their own.
existing == <<Piece("e", 1), Piece("x", 1), Piece("isting", 1)>>
size_colon == <<Piece("si", 1), Piece("z", 1), Piece("e", 1), Piece(":", 1)>>
Size_colon == <<Piece("Si", 1), Piece("z", 1), Piece("e", 1), Piece(":", 1)>>

\* The string _write_memory returns:
\* f"Warning: Overwriting existing content ({previous_size} chars). "
\* f"New content size: {len(content)} chars. "
\* "Memory has been updated successfully."  over a buffer that was not
\* empty, f"Memory updated successfully. Size: {len(content)} chars." else.
write_status(status) ==
    IF status.kind = "overwrite_warning"
    THEN Sentence(<< <<Piece("Warning", 1), Piece(":", 1)>>,
                     Rep("Overwriting", 1), existing, Rep("content", 1),
                     Rep("(", 1) \o Decimal(status.previous_size),
                     <<Piece("chars", 1), Piece(")", 1), Piece(".", 1)>>,
                     Rep("New", 1), Rep("content", 1), size_colon,
                     Decimal(status.size),
                     <<Piece("chars", 1), Piece(".", 1)>>,
                     Rep("Memory", 1), Rep("has", 1), Rep("been", 1), Rep("updated", 1),
                     <<Piece("successfully", 1), Piece(".", 1)>> >>)
    ELSE Sentence(<< Rep("Memory", 1), Rep("updated", 1),
                     <<Piece("successfully", 1), Piece(".", 1)>>,
                     Size_colon, Decimal(status.size),
                     <<Piece("chars", 1), Piece(".", 1)>> >>)

\* C18: write on a store whose buffer is not empty succeeds, and the status
\* it returns flags the overwrite and holds the previous content, the
\* content that was discarded.
C18_OverwriteEchoesPrevious ==
    (call.action = "write" /\ call.memory_before # <<>>) =>
        /\ ret.kind = "overwrite_warning"
        /\ Contains(write_status(ret), call.memory_before)

\* The same without the echo: the write succeeds and the status flags the
\* overwrite with the size of what was discarded.
C18_OverwriteFlagged ==
    (call.action = "write" /\ call.memory_before # <<>>) =>
        /\ ret.kind = "overwrite_warning"
        /\ ret.previous_size = StrLen(call.memory_before)

----------------------------------------------------------------------------
(* planner.py: PlannerAgent.  The store of the planner is an               *)
(* EnhancedMemoryToolkit; a store is the record of its fields.             *)

\* The store as the planner finds it.
ThisStore ==
    [full_memory |-> full_memory, memory_metadata |-> memory_metadata, ret |-> ret,
     call |-> call, compressed |-> compressed, now |-> now]

\* The calls a turn makes to the store at most: the read of the context,
\* the tool calls, the write of the insights, the read that verifies it.
CallsOfTurn == MaxToolCalls + 3

\* The store as turn t finds it: time has passed since the turn before, and
\* the clock stands at the start of the slot of turn t.
StoreAtTurn(t) == [ThisStore EXCEPT !.now = (t - 1) * CallsOfTurn]

\* The store after a call that returned status and left outcome.full_memory
\* and outcome.memory_metadata in it.
StoreAfter(store, action, content, outcome) ==
    [full_memory |-> outcome.full_memory,
     memory_metadata |-> outcome.memory_metadata,
     ret |-> outcome.ret,
     call |-> [action |-> action, content |-> content, old_string |-> <<>>,
               new_string |-> <<>>, memory_before |-> store.full_memory,
               metadata_before |-> store.memory_metadata,
               compressed_before |-> store.compressed],
     compressed |->
        IF outcome.memory_metadata.compression_count > store.memory_metadata.compression_count
        THEN TRUE
        ELSE IF outcome.full_memory # store.full_memory THEN FALSE
        ELSE store.compressed,
     now |-> store.now + 1]

\* await self.memory_toolkit.enhanced_memory(action="read")
enhanced_memory_read(store) ==
    StoreAfter(store, "read", <<>>,
               [full_memory |-> store.full_memory, memory_metadata |-> store.memory_metadata,
                ret |-> _read_memory(store.full_memory)])

\* await self.memory_toolkit.enhanced_memory(action="write", content=content)
enhanced_memory_write(store, content) ==
    StoreAfter(store, "write", content,
               _write_memory(store.full_memory, store.memory_metadata, content, store.now + 1))

no_memory_placeholder ==
    Rep("No previous conversation memory found. This is the start of our conversation about SAP career guidance.", 1)

\* The string enhanced_memory returned, for a read or a write.
result_string(status) ==
    CASE status.kind = "memory" -> status.text
      [] status.kind = "no_memory_placeholder" -> no_memory_placeholder
      [] OTHER -> write_status(status)

\* PlannerAgent._read_memory_context: self.memory_context afterwards.  The
\* store is read; what it returns is wrapped unless it is blank.
_read_memory_context(toolkit, store) ==
    IF ~toolkit THEN <<>>
    ELSE With(result_string(enhanced_memory_read(store).ret), LAMBDA memory_content :
            IF IsBlank(memory_content) THEN <<>>
            ELSE Norm(<<Piece(NL, 1), Piece("MEMORY CONTEXT FROM PREVIOUS CONVERSATIONS:", 1),
                        Piece(NL, 1)>>
                      \o memory_content
                      \o <<Piece(NL, 2),
                           Piece("INSTRUCTIONS: Use this context to understand the user's career goals, previous planning decisions, and preferences. Reference the target role and build upon previous analysis rather than starting fresh.", 1),
                           Piece(NL, 1)>>))

\* The tool calls a model response can request.  arguments is the JSON
\* object, or what stands in its place.
ToolCall(id, name, arguments) == [id |-> id, name |-> name, arguments |-> arguments]

memory_read == [json |-> TRUE, action |-> "read", content |-> [null |-> FALSE, text |-> <<>>]]
memory_write(content) ==
    [json |-> TRUE, action |-> "write", content |-> [null |-> FALSE, text |-> content]]
\* {"action": "write", "content": null}: len(content) raises TypeError
memory_write_null == [json |-> TRUE, action |-> "write", content |-> [null |-> TRUE, text |-> <<>>]]
\* "{bad": json.loads raises JSONDecodeError
not_json == [json |-> FALSE, action |-> "", content |-> [null |-> FALSE, text |-> <<>>]]

\* {"role": "tool", "tool_call_id": ..., "content": ...}
ToolMessage(id, content, error) ==
    [role |-> "tool", tool_call_id |-> id, content |-> content, error |-> error]

error_prefix == "Error executing tool: "

\* The round of the loop that answers without calling the store.
handle_tool_call_without_store(tool_call, toolkit, store) ==
    [store |-> store, called |-> FALSE,
     messages |-> <<[role |-> "tool", tool_call_id |-> tool_call.id,
                     content |-> Rep("Memory toolkit not available", 1), error |-> FALSE]>>]

\* One round of the loop of _handle_tool_calls, for tool_call: the store
\* afterwards, the message appended (none for a tool that is not
\* enhanced_memory), and whether the store was called.
handle_tool_call(tool_call, toolkit, store) ==
    IF tool_call.name # "enhanced_memory"
    THEN [store |-> store, messages |-> <<>>, called |-> FALSE]
    ELSE IF ~tool_call.arguments.json
    THEN [store |-> store, called |-> FALSE,
          messages |-> <<ToolMessage(tool_call.id,
                            <<Piece(error_prefix, 1),
                              Piece("Expecting property name enclosed in double quotes: line 1 column 2 (char 1)", 1)>>,
                            TRUE)>>]
    ELSE IF ~toolkit
    THEN [store |-> store, called |-> FALSE,
          messages |-> <<ToolMessage(tool_call.id, Rep("Memory toolkit not available", 1),
                                     FALSE)>>]
    ELSE IF tool_call.arguments.action = "write" /\ tool_call.arguments.content.null
    THEN [store |-> store, called |-> TRUE,
          messages |-> <<ToolMessage(tool_call.id,
                            <<Piece(error_prefix, 1),
                              Piece("object of type 'NoneType' has no len()", 1)>>,
                            TRUE)>>]
    ELSE With(IF tool_call.arguments.action = "write"
              THEN enhanced_memory_write(store, tool_call.arguments.content.text)
              ELSE enhanced_memory_read(store), LAMBDA after :
            [store |-> after, called |-> TRUE,
             messages |-> <<ToolMessage(tool_call.id, result_string(after.ret), FALSE)>>])

\* PlannerAgent._handle_tool_calls from the k-th tool call on: the store
\* afterwards, tool_results, and the ids of the calls made on the store.
RECURSIVE _handle_tool_calls(_, _, _, _)
_handle_tool_calls(tool_calls, k, toolkit, store) ==
    IF k > Len(tool_calls) THEN [store |-> store, tool_results |-> <<>>, executed |-> <<>>]
    ELSE With(handle_tool_call(tool_calls[k], toolkit, store), LAMBDA one :
         With(_handle_tool_calls(tool_calls, k + 1, toolkit, one.store), LAMBDA rest :
            [store |-> rest.store,
             tool_results |-> one.messages \o rest.tool_results,
             executed |-> (IF one.called THEN <<tool_calls[k].id>> ELSE <<>>)
                          \o rest.executed]))

\* The roles _store_planning_insights looks for in the analysis, in the
\* order of its elif chain: the words, and the target role they stand for.
target_roles ==
    << [words |-> "solution architect", role |-> "SAP Solution Architect"],
       [words |-> "cloud engineer", role |-> "Cloud Engineer"],
       [words |-> "consultant", role |-> "SAP Consultant"],
       [words |-> "developer", role |-> "SAP Developer"],
       [words |-> "administrator", role |-> "SAP Administrator"] >>

\* target_role or "Not specified"
target_role(analysis) ==
    With({k \in 1..Len(target_roles) :
            \E i \in 1..Len(analysis) : analysis[i].c = target_roles[k].words}, LAMBDA found :
        IF found = {} THEN "Not specified" ELSE target_roles[SetMin(found)].role)

analysis_summary_limit == 200

\* plan_result.analysis[:200] + ("..." if len(plan_result.analysis) > 200 else "")
analysis_summary(analysis) ==
    IF StrLen(analysis) > analysis_summary_limit
    THEN Cat(FirstChars(analysis, analysis_summary_limit), Rep(".", 3))
    ELSE analysis

\* "**<label>:** "
Bold(label) == <<Piece("*", 2), Piece(label, 1), Piece(":", 1), Piece("*", 2), Piece(SP, 1)>>

\* planning_insights, the f-string of _store_planning_insights, written
\* when the clock stands at t.
planning_insights(query, plan, t) ==
    Norm(<<Piece(NL, 1), Piece("#", 2), Piece(SP, 1), Piece("PLANNING SESSION", 1),
           Piece(SP, 1), Piece("-", 1), Piece(SP, 1), Piece(Timestamp(t), 1), Piece(NL, 1)>>
         \o Bold("User Query") \o query \o Rep(NL, 1)
         \o Bold("Target Role") \o Rep(target_role(plan.analysis), 1) \o Rep(NL, 1)
         \o Bold("Analysis Summary") \o analysis_summary(plan.analysis) \o Rep(NL, 2)
         \o <<Piece("#", 3), Piece(SP, 1), Piece("Assigned Tasks", 1), Piece(":", 1),
              Piece(NL, 1)>>
         \o task_lines(plan.todo)
         \o <<Piece(NL, 2), Piece("-", 3), Piece(NL, 1)>>)

\* PlannerAgent._store_planning_insights: the store afterwards and what was
\* done.  Without a store it returns at once; an exception of the write is
\* caught and printed.
_store_planning_insights(toolkit, store, query, plan, write_raises) ==
    IF ~toolkit THEN [store |-> store, persist |-> "no_store"]
    ELSE IF write_raises THEN [store |-> store, persist |-> "swallowed"]
    ELSE [store |-> enhanced_memory_write(store,
                        planning_insights(query, plan, store.now + 1)),
          persist |-> "stored"]

\* response_content = content or fallback
ContentOr(content, fallback) == IF content # <<>> THEN content ELSE fallback

\* The test before the follow-up call left out: the call is made also
\* when no tool call gave a result.
needs_follow_up_always(results) == TRUE

\* if tool_results: whether the follow-up call is made
needs_follow_up(results) == results # <<>>

----------------------------------------------------------------------------
(* The responses of the model and the configurations of the planner. *)

\* What a tool call of a response can be.
ToolChoices(id) ==
    { ToolCall(id, "enhanced_memory", memory_read),
      ToolCall(id, "enhanced_memory", memory_write(Words("z", "q"))),
      ToolCall(id, "enhanced_memory", memory_write_null),
      ToolCall(id, "enhanced_memory", not_json),
      ToolCall(id, "simple_memory", memory_read) }

\* The tool calls of a response: none, or writes of "x" and a last call of
\* any kind, up to MaxToolCalls calls; the id of a call is its place.
ToolCallLists ==
    { <<>> } \cup
    UNION { { [k \in 1..n |-> IF k = n THEN last
                              ELSE ToolCall(k, "enhanced_memory", memory_write(X(k)))] :
                last \in ToolChoices(n) } : n \in 1..MaxToolCalls }

\* The contents of a response: none, prose, a numbered plan.
ModelContents ==
    { <<>>,
      Words("x", "z"),
      RenderText(<< Line("bold", "1", "ResearchAgent", Rep("x", 1)),
                    Line("bold", "2", "AnalysisAgent", Words("z", "q")) >>) }

Message(content, tool_calls) == [failed |-> FALSE, content |-> content, tool_calls |-> tool_calls]

\* The call raised.
FailedCall == [failed |-> TRUE, content |-> <<>>, tool_calls |-> <<>>]

\* What the initial call can return: a content alone, or tool calls with
\* no content or with a numbered plan.
ModelResponses ==
    { Message(content, <<>>) : content \in ModelContents } \cup
    { Message(content, tool_calls) :
        content \in ModelContents \ {Words("x", "z")}, tool_calls \in ToolCallLists \ {<<>>} }

\* What the follow-up call can return: no content or a numbered plan,
\* alone or with a tool call.
FollowUpResponses ==
    { Message(content, tool_calls) :
        content \in ModelContents \ {Words("x", "z")},
        tool_calls \in { <<>>, <<ToolCall(MaxToolCalls + 1, "enhanced_memory",
                                          memory_write(X(3)))>> } }

PlannerRosters == { <<"ResearchAgent", "AnalysisAgent">>, <<"ResearchAgent", "Dev(OpsAgent">> }

UserQueries == { Rep("q", 1) }

Raised == [kind |-> "raised", plan |-> NoPlan]

----------------------------------------------------------------------------
(* PlannerAgent.create_plan, one action for each of its steps. *)

PlannerInit ==
    /\ memory_toolkit \in BOOLEAN
    /\ llm_type \in {"chat.completions", "responses"}
    /\ available_agents \in PlannerRosters
    /\ memory_context = <<>>
    /\ user_query = <<>>
    /\ raw_response = NoMessage
    /\ tool_results = <<>>
    /\ follow_up_response = NoMessage
    /\ messages_with_tools = <<>>
    /\ pc = "idle"
    /\ model_calls = 0
    /\ executed = <<>>
    /\ persist = "none"
    /\ returned = NoReturn
    /\ turn = 0
    /\ response_lines = <<>>
    /\ output_text = <<>>
    /\ plan_result = NoPlan
    /\ stored_lines = <<>>
    /\ reextracted = <<>>
    /\ step = "idle"
    /\ MemoryIdle
    /\ ContextIdle
    /\ SocketIdle
    /\ HistoryIdle
    /\ SessionIdle

\* The store becomes what the record says.
StoreBecomes(store) ==
    /\ full_memory' = store.full_memory
    /\ memory_metadata' = store.memory_metadata
    /\ ret' = store.ret
    /\ call' = store.call
    /\ compressed' = store.compressed
    /\ now' = store.now

PlannerFixed ==
    UNCHANGED <<memory_toolkit, llm_type, available_agents, response_lines, stored_lines,
                reextracted, step, contextVars, socketVars, historyVars, sessionVars>>

\* create_plan is called: the memory context is read and the prompt built.
StartTurn(query) ==
    /\ pc \in {"idle", "returned", "raised"}
    /\ turn < MaxTurns
    /\ turn' = turn + 1
    /\ user_query' = query
    /\ memory_context' = _read_memory_context(memory_toolkit, StoreAtTurn(turn + 1))
    /\ IF memory_toolkit THEN StoreBecomes(enhanced_memory_read(StoreAtTurn(turn + 1)))
       ELSE UNCHANGED memVars
    /\ raw_response' = NoMessage
    /\ tool_results' = <<>>
    /\ follow_up_response' = NoMessage
    /\ messages_with_tools' = <<>>
    /\ model_calls' = 0
    /\ executed' = <<>>
    /\ persist' = "none"
    /\ returned' = NoReturn
    /\ output_text' = <<>>
    /\ plan_result' = NoPlan
    /\ pc' = "initial_call"
    /\ PlannerFixed

\* The initial model call raises: the exception leaves create_plan.
InitialCallFails ==
    /\ pc = "initial_call"
    /\ model_calls' = model_calls + 1
    /\ raw_response' = FailedCall
    /\ returned' = Raised
    /\ pc' = "raised"
    /\ UNCHANGED <<memVars, memory_context, user_query, tool_results, follow_up_response,
                   messages_with_tools, executed, persist, turn, output_text, plan_result>>
    /\ PlannerFixed

\* The initial model call returns.  With chat.completions a response with
\* tool calls goes to _handle_tool_calls; else its content is the response.
InitialCallReturns(response) ==
    /\ pc = "initial_call"
    /\ model_calls' = model_calls + 1
    /\ raw_response' = response
    /\ IF llm_type = "chat.completions" /\ response.tool_calls # <<>>
       THEN pc' = "tool_calls" /\ UNCHANGED output_text
       ELSE pc' = "parse" /\ output_text' = response.content
    /\ UNCHANGED <<memVars, memory_context, user_query, tool_results, follow_up_response,
                   messages_with_tools, executed, persist, returned, turn, plan_result>>
    /\ PlannerFixed

\* {"role": "assistant", "content": ..., "tool_calls": ...}
assistant_message_with_tools(message) ==
    [role |-> "assistant", content |-> message.content, tool_calls |-> message.tool_calls]

\* The tool calls of the initial response are executed.  With results,
\* the messages of the follow-up call are made ready; without any, the
\* content of the initial response is the response.
HandleToolCalls ==
    /\ pc = "tool_calls"
    /\ LET handled == _handle_tool_calls(raw_response.tool_calls, 1, memory_toolkit, ThisStore) IN
       /\ StoreBecomes(handled.store)
       /\ tool_results' = handled.tool_results
       /\ executed' = handled.executed
       /\ IF needs_follow_up(handled.tool_results)
          THEN /\ messages_with_tools' =
                     <<assistant_message_with_tools(raw_response)>> \o handled.tool_results
               /\ pc' = "follow_up"
               /\ UNCHANGED output_text
          ELSE /\ output_text' = raw_response.content
               /\ pc' = "parse"
               /\ UNCHANGED messages_with_tools
    /\ UNCHANGED <<memory_context, user_query, raw_response, follow_up_response, model_calls,
                   persist, returned, turn, plan_result>>
    /\ PlannerFixed

\* The follow-up call raises: the exception is caught and the content of
\* the initial response, or a fixed sentence, is the response.
FollowUpFails ==
    /\ pc = "follow_up"
    /\ model_calls' = model_calls + 1
    /\ follow_up_response' = FailedCall
    /\ output_text' =
         ContentOr(raw_response.content,
                   Rep("Error in follow-up call, using original response.", 1))
    /\ pc' = "parse"
    /\ UNCHANGED <<memVars, memory_context, user_query, raw_response, tool_results,
                   messages_with_tools, executed, persist, returned, turn, plan_result>>
    /\ PlannerFixed

\* The follow-up call returns: its content is the response; when it has
\* none, the content of the initial response or a fixed sentence is.  Its
\* tool calls are not looked at.
FollowUpReturns(response) ==
    /\ pc = "follow_up"
    /\ model_calls' = model_calls + 1
    /\ follow_up_response' = response
    /\ output_text' =
         ContentOr(response.content,
                   ContentOr(raw_response.content,
                             Rep("Tool executed successfully, but no additional planning content generated.", 1)))
    /\ pc' = "parse"
    /\ UNCHANGED <<memVars, memory_context, user_query, raw_response, tool_results,
                   messages_with_tools, executed, persist, returned, turn, plan_result>>
    /\ PlannerFixed

\* plan_result = self.output_parser.parse(response_content); an exception
\* of parse leaves create_plan.
ParseResponseContent ==
    /\ pc = "parse"
    /\ plan_result' = parse(output_text, available_agents)
    /\ IF plan_result'.raised
       THEN pc' = "raised" /\ returned' = Raised
       ELSE pc' = "persist" /\ UNCHANGED returned
    /\ UNCHANGED <<memVars, memory_context, user_query, raw_response, tool_results,
                   follow_up_response, messages_with_tools, model_calls, executed, persist,
                   turn, output_text>>
    /\ PlannerFixed

\* await self._store_planning_insights(task_recorder.task, plan_result)
PersistPlanningInsights(write_raises) ==
    /\ pc = "persist"
    /\ (write_raises => memory_toolkit)
    /\ LET done == _store_planning_insights(memory_toolkit, ThisStore, user_query,
                                            plan_result, write_raises) IN
       /\ StoreBecomes(done.store)
       /\ persist' = done.persist
    /\ pc' = "verify"
    /\ UNCHANGED <<memory_context, user_query, raw_response, tool_results, follow_up_response,
                   messages_with_tools, model_calls, executed, returned, turn, output_text,
                   plan_result>>
    /\ PlannerFixed

\* The store is read once more to verify the write, and plan_result is
\* returned.
VerifyAndReturn ==
    /\ pc = "verify"
    /\ IF memory_toolkit THEN StoreBecomes(enhanced_memory_read(ThisStore))
       ELSE UNCHANGED memVars
    /\ returned' = [kind |-> "plan", plan |-> plan_result]
    /\ pc' = "returned"
    /\ UNCHANGED <<memory_context, user_query, raw_response, tool_results, follow_up_response,
                   messages_with_tools, model_calls, executed, persist, turn, output_text,
                   plan_result>>
    /\ PlannerFixed

PlannerNext ==
    \/ \E query \in UserQueries : StartTurn(query)
    \/ InitialCallFails
    \/ \E response \in ModelResponses : InitialCallReturns(response)
    \/ HandleToolCalls
    \/ FollowUpFails
    \/ \E response \in FollowUpResponses : FollowUpReturns(response)
    \/ ParseResponseContent
    \/ \E write_raises \in BOOLEAN : PersistPlanningInsights(write_raises)
    \/ VerifyAndReturn

PlannerSpec == PlannerInit /\ [][PlannerNext]_vars

----------------------------------------------------------------------------
(* Claims about a planning turn. *)

\* The turn is over: create_plan returned or raised.
TurnOver == pc \in {"returned", "raised"}

\* C14: any failure of a model call of a turn, the initial call or the
\* follow-up call, ends the turn with an error: the turn does not go on
\* to PERSIST and create_plan returns no plan.
C14_ModelCallFailureAborts ==
    (raw_response.failed \/ follow_up_response.failed) =>
        /\ pc \notin {"persist", "verify", "returned"}
        /\ persist = "none"
        /\ returned.kind # "plan"

\* The same for the initial call alone.
C14_InitialCallFailureAborts ==
    raw_response.failed =>
        /\ pc = "raised"
        /\ persist = "none"
        /\ returned = Raised

\* The tool call fails when it is executed: its arguments are no JSON, or
\* the store raises on them.
FailsWhenExecuted(tool_call) ==
    /\ tool_call.name = "enhanced_memory"
    /\ \/ ~tool_call.arguments.json
       \/ /\ memory_toolkit
          /\ tool_call.arguments.action = "write"
          /\ tool_call.arguments.content.null

\* A tool call of the turn failed when _handle_tool_calls executed it.
ToolCallFailed ==
    /\ llm_type = "chat.completions"
    /\ \E k \in 1..Len(raw_response.tool_calls) : FailsWhenExecuted(raw_response.tool_calls[k])

\* C15: a failure while a requested tool call is executed never aborts the
\* turn: it becomes a tool-result message with the id of the call and an
\* error string as content, the message is given to the follow-up call,
\* and the turn returns a plan.
C15_ToolFailureBecomesToolResult ==
    (TurnOver /\ ToolCallFailed) =>
        /\ \A k \in 1..Len(raw_response.tool_calls) :
              FailsWhenExecuted(raw_response.tool_calls[k]) =>
                 \E i \in 1..Len(messages_with_tools) :
                    /\ messages_with_tools[i].role = "tool"
                    /\ messages_with_tools[i].tool_call_id = raw_response.tool_calls[k].id
                    /\ messages_with_tools[i].content[1].c = error_prefix
        /\ model_calls = 2
        /\ returned.kind = "plan"

\* The names of the roster are plain: none of them breaks a pattern.
PlainRoster == \A k \in 1..Len(available_agents) : available_agents[k] \notin UnterminatedNames

\* The same for the rosters of plain names.
C15_ToolFailureBecomesToolResultPlainRoster ==
    PlainRoster => C15_ToolFailureBecomesToolResult

\* The turn reached extraction: the response of the model was given to
\* parse.
ReachedExtraction == TurnOver /\ ~raw_response.failed

\* C16: PERSIST is attempted in every turn that reaches extraction;
\* without a store it changes nothing, an exception of the store write is
\* swallowed, and in every case create_plan returns the extracted plan.
C16_PersistAlwaysAttempted ==
    ReachedExtraction =>
        /\ persist \in {"no_store", "swallowed", "stored"}
        /\ (persist = "no_store") = ~memory_toolkit
        /\ (persist = "no_store" => full_memory = <<>>)
        /\ returned = [kind |-> "plan", plan |-> parse(output_text, available_agents)]

\* The same for the rosters of plain names.
C16_PersistAlwaysAttemptedPlainRoster ==
    PlainRoster => C16_PersistAlwaysAttempted

\* C19: what the store of the planner holds before the PERSIST step of a
\* turn (the records of earlier turns, what the model wrote through the
\* memory tool) is still in the store after it, unless a compression for
\* capacity removed it.
C19_MemorySurvivesPersist ==
    (pc = "verify" /\ persist = "stored") =>
        \/ Contains(full_memory, call.memory_before)
        \/ memory_metadata.compression_count > call.metadata_before.compression_count

\* C20: in one turn at most two model calls are issued; a second call is
\* made only after an initial response that requested tools and carries
\* the tool results; and only tool calls of the initial response are ever
\* executed, never those of the follow-up response.
C20_AtMostOneRoundTrip ==
    /\ model_calls <= 2
    /\ model_calls = 2 =>
          /\ ~raw_response.failed
          /\ raw_response.tool_calls # <<>>
          /\ tool_results # <<>>
          /\ messages_with_tools = <<assistant_message_with_tools(raw_response)>> \o tool_results
    /\ Len(executed) <= Len(raw_response.tool_calls)
    /\ \A i \in 1..Len(executed) :
          \E k \in 1..Len(raw_response.tool_calls) : raw_response.tool_calls[k].id = executed[i]

\* A turn has returned after a round trip whose follow-up response asked
\* for a tool call again.
C20_FollowUpToolCallIgnored ==
    /\ pc = "returned"
    /\ model_calls = 2
    /\ executed # <<>>
    /\ follow_up_response.tool_calls # <<>>

----------------------------------------------------------------------------
(* WebSocketHandler: the queries and finish requests of one client and    *)
(* the streaming tasks they start and cancel.  All coroutines run on one  *)
(* event loop: on_message never suspends, and a streaming task suspends   *)
(* only while it waits for the next event of its stream.                  *)

\* Events one stream delivers at most before it ends.
MaxEvents == 1

\* asyncio.create_task(self.stream_responses(stream)): the task is
\* scheduled and has not run yet.
NewTask == [state |-> "pending", must_cancel |-> FALSE, events |-> 0]

\* not task.done()
Running(task) == task.state \in {"pending", "waiting"}

\* self.stream_task and not self.stream_task.done(); self.stream_task is
\* the task created last.
StreamTaskRunning == stream_tasks # <<>> /\ Running(stream_tasks[Len(stream_tasks)])

\* self.stream_task.cancel() if the task is running: the CancelledError is
\* thrown into the task when the loop runs it next.
CancelStreamTask ==
    IF StreamTaskRunning
    THEN [stream_tasks EXCEPT ![Len(stream_tasks)].must_cancel = TRUE]
    ELSE stream_tasks

\* The state of self.stream_task when a message arrives.
StreamTaskState ==
    IF stream_tasks = <<>> THEN "none" ELSE stream_tasks[Len(stream_tasks)].state

\* asdict(event) as send_event writes it: the type of the event, the
\* coroutine that sent it and the query it belongs to.
Sent(type, by, query) == [type |-> type, by |-> by, query |-> query]

\* A message of the client, with the stream task it found.
Received(type) == [type |-> type, query |-> Len(stream_tasks), task_state |-> StreamTaskState]

\* self.close(...) or the client closed the socket: no message follows.
Closed == received # <<>> /\ received[Len(received)].type = "close"

MayReceive == ~Closed /\ Len(received) < MaxMessages

SocketInit ==
    MemoryIdle /\ ParserIdle /\ ContextIdle /\ PlannerIdle /\ SocketIdle /\ HistoryIdle /\ SessionIdle

SocketFixed == UNCHANGED <<memVars, parserVars, contextVars, plannerVars, historyVars, sessionVars>>

\* on_message, {"type": "query", ...}: the previous task is cancelled, the
\* finish flag reset and a new streaming task created.
OnMessageQuery ==
    /\ MayReceive
    /\ received' = Append(received, Received("query"))
    /\ stream_tasks' = Append(CancelStreamTask, NewTask)
    /\ finish_requested' = FALSE
    /\ UNCHANGED sent
    /\ SocketFixed

\* on_message, {"type": "finish"}: the flag is set, the task cancelled and
\* a finish event sent back.
OnMessageFinish ==
    /\ MayReceive
    /\ received' = Append(received, Received("finish"))
    /\ finish_requested' = TRUE
    /\ stream_tasks' = CancelStreamTask
    /\ sent' = Append(sent, Sent("finish", "on_message", Len(stream_tasks)))
    /\ SocketFixed

\* on_message, any other type: ignored.
OnMessageOther ==
    /\ MayReceive
    /\ received' = Append(received, Received("other"))
    /\ UNCHANGED <<stream_tasks, finish_requested, sent>>
    /\ SocketFixed

\* on_close: the running task is cancelled.
OnClose ==
    /\ MayReceive
    /\ received' = Append(received, Received("close"))
    /\ stream_tasks' = CancelStreamTask
    /\ UNCHANGED <<finish_requested, sent>>
    /\ SocketFixed

\* The loop runs task k for the first time.  A task cancelled before it
\* ran never enters stream_responses; else it enters the async for and
\* waits for the first event.
TaskStarts(k) ==
    /\ stream_tasks[k].state = "pending"
    /\ stream_tasks' = [stream_tasks EXCEPT ![k].state =
                            IF stream_tasks[k].must_cancel THEN "cancelled" ELSE "waiting"]
    /\ UNCHANGED <<finish_requested, sent, received>>
    /\ SocketFixed

\* The CancelledError is thrown into task k at its await: the handler
\* sends a finish event if a finish was requested, and the error is raised
\* again.
TaskCancelled(k) ==
    /\ stream_tasks[k].state = "waiting"
    /\ stream_tasks[k].must_cancel
    /\ sent' = IF finish_requested THEN Append(sent, Sent("finish", "task", k)) ELSE sent
    /\ stream_tasks' = [stream_tasks EXCEPT ![k].state = "cancelled"]
    /\ UNCHANGED <<finish_requested, received>>
    /\ SocketFixed

\* The stream of task k delivers an event: the loop of stream_responses
\* breaks if a finish was requested, else the event is handled and, if
\* the handler made something of it (shown), sent.
TaskReceivesEvent(k, shown) ==
    /\ stream_tasks[k].state = "waiting"
    /\ ~stream_tasks[k].must_cancel
    /\ stream_tasks[k].events < MaxEvents
    /\ IF finish_requested
       THEN /\ stream_tasks' = [stream_tasks EXCEPT ![k].state = "done"]
            /\ UNCHANGED sent
       ELSE /\ stream_tasks' = [stream_tasks EXCEPT ![k].events = @ + 1]
            /\ sent' = IF shown THEN Append(sent, Sent("event", "task", k)) ELSE sent
    /\ UNCHANGED <<finish_requested, received>>
    /\ SocketFixed

\* The stream of task k ends: the else of the loop sends the finish event
\* unless a finish was requested.
TaskCompletes(k) ==
    /\ stream_tasks[k].state = "waiting"
    /\ ~stream_tasks[k].must_cancel
    /\ sent' = IF ~finish_requested THEN Append(sent, Sent("finish", "task", k)) ELSE sent
    /\ stream_tasks' = [stream_tasks EXCEPT ![k].state = "done"]
    /\ UNCHANGED <<finish_requested, received>>
    /\ SocketFixed

SocketNext ==
    \/ OnMessageQuery
    \/ OnMessageFinish
    \/ OnMessageOther
    \/ OnClose
    \/ \E k \in 1..Len(stream_tasks) : TaskStarts(k)
    \/ \E k \in 1..Len(stream_tasks) : TaskCancelled(k)
    \/ \E k \in 1..Len(stream_tasks), shown \in BOOLEAN : TaskReceivesEvent(k, shown)
    \/ \E k \in 1..Len(stream_tasks) : TaskCompletes(k)

SocketSpec == SocketInit /\ [][SocketNext]_vars

\* Message i is a finish request that came before the stream of the
\* current query had completed.
FinishBeforeCompletion(i) ==
    /\ received[i].type = "finish"
    /\ received[i].task_state \in {"pending", "waiting"}

\* The finish events the streaming task of query k has sent.
FinishEventsOfTask(k) ==
    { j \in 1..Len(sent) : sent[j] = Sent("finish", "task", k) }

\* The finish events on_message has sent.
FinishAcknowledgments ==
    { j \in 1..Len(sent) : sent[j].type = "finish" /\ sent[j].by = "on_message" }

FinishRequests == { i \in 1..Len(received) : received[i].type = "finish" }

\* C17: when the client sends a finish request before the stream of the
\* current query has completed, the streaming task of that query sends no
\* finish event, and one finish acknowledgment is sent for the request,
\* however the request and the task interleave.
C17_NoFinishEventAfterFinishRequest ==
    /\ \A i \in 1..Len(received) :
          FinishBeforeCompletion(i) => FinishEventsOfTask(received[i].query) = {}
    /\ Cardinality(FinishAcknowledgments) = Cardinality(FinishRequests)

\* The same for the acknowledgment alone: on_message sends one for every
\* finish request.
C17_OneAcknowledgmentPerRequest ==
    Cardinality(FinishAcknowledgments) = Cardinality(FinishRequests)

----------------------------------------------------------------------------
(* Claims about the order of the steps of a planning turn. *)

\* The ids of the tool calls of the initial response that ask for an
\* operation of the store, in the order of the response.
RECURSIVE StoreOperationsRequested(_, _)
StoreOperationsRequested(tool_calls, k) ==
    IF k > Len(tool_calls) THEN <<>>
    ELSE (IF tool_calls[k].name = "enhanced_memory" /\ tool_calls[k].arguments.json
          THEN <<tool_calls[k].id>> ELSE <<>>)
         \o StoreOperationsRequested(tool_calls, k + 1)

\* The steps of create_plan that can follow one another.
StepsInOrder ==
    { <<"idle", "initial_call">>, <<"returned", "initial_call">>, <<"raised", "initial_call">>,
      <<"initial_call", "raised">>, <<"initial_call", "tool_calls">>, <<"initial_call", "parse">>,
      <<"tool_calls", "follow_up">>, <<"tool_calls", "parse">>,
      <<"follow_up", "parse">>,
      <<"parse", "persist">>, <<"parse", "raised">>,
      <<"persist", "verify">>,
      <<"verify", "returned">> }

\* What holds in every state of a turn.
TurnInOrder ==
    /\ (pc \in {"follow_up"} \/ model_calls = 2) =>
          /\ model_calls >= 1
          /\ memory_toolkit =>
                executed = StoreOperationsRequested(raw_response.tool_calls, 1)
    /\ pc \in {"persist", "verify", "returned"} =>
          /\ model_calls >= 1
          /\ plan_result = parse(output_text, available_agents)
    /\ persist # "none" => pc \in {"verify", "returned"}
    /\ pc = "returned" =>
          /\ persist # "none"
          /\ returned = [kind |-> "plan", plan |-> plan_result]

\* C21: a planning turn goes through its steps in the order prompt, model
\* call, optional tool round trip, extraction, PERSIST, return: the store
\* operations the model asked for are all executed before the follow-up
\* call, extraction runs once, on the final text, and the store write of
\* PERSIST happens once, after extraction and before the return.
C21_StepsOfTurnInOrder ==
    [][ /\ pc' # pc => <<pc, pc'>> \in StepsInOrder
        /\ TurnInOrder'
        /\ executed' # executed => (pc = "tool_calls" \/ pc' = "initial_call")
        /\ plan_result' # plan_result => (pc = "parse" \/ pc' = "initial_call")
        /\ output_text' # output_text => pc' \in {"parse", "initial_call"}
        /\ persist' # persist => (pc = "persist" \/ pc' = "initial_call")
        /\ full_memory' # full_memory => pc \in {"tool_calls", "persist"} ]_vars

\* A turn with a tool round trip that wrote to the store has returned
\* after PERSIST stored its record.
C21_RoundTripTurnReturned ==
    /\ pc = "returned"
    /\ model_calls = 2
    /\ executed # <<>>
    /\ persist = "stored"

\* The follow-up call of the turn returned a response without content.
FollowUpWithoutContent ==
    /\ model_calls = 2
    /\ ~follow_up_response.failed
    /\ follow_up_response.content = <<>>

\* C22: when the follow-up call returns no content, the text given to
\* extraction is the content of the initial response, and the turn goes on
\* to extraction and PERSIST without another model call.
C22_FallsBackToOriginalContent ==
    FollowUpWithoutContent =>
        /\ output_text = raw_response.content
        /\ pc \in {"parse", "persist", "verify", "returned"}
        /\ pc \in {"verify", "returned"} => persist # "none"

\* The same with the fixed sentence that stands in for an initial response
\* without content, for the rosters of plain names.
C22_FallsBackToOriginalContentOrSentence ==
    (FollowUpWithoutContent /\ PlainRoster) =>
        /\ output_text =
             IF raw_response.content # <<>> THEN raw_response.content
             ELSE Rep("Tool executed successfully, but no additional planning content generated.", 1)
        /\ pc \in {"parse", "persist", "verify", "returned"}
        /\ pc \in {"verify", "returned"} => persist # "none"

\* The tool calls of the initial response have been handled.
ToolCallsHandled ==
    /\ llm_type = "chat.completions"
    /\ ~raw_response.failed
    /\ raw_response.tool_calls # <<>>
    /\ pc \notin {"initial_call", "tool_calls"}

\* C27: every tool call of the response, whatever tool it names, is
\* answered by exactly one tool-result message with the id of the call,
\* and a call of an unknown tool is answered with an error result.
C27_EveryToolCallAnswered ==
    ToolCallsHandled =>
        /\ Len(tool_results) = Len(raw_response.tool_calls)
        /\ \A k \in 1..Len(raw_response.tool_calls) :
              /\ tool_results[k].role = "tool"
              /\ tool_results[k].tool_call_id = raw_response.tool_calls[k].id
              /\ raw_response.tool_calls[k].name # "enhanced_memory" => tool_results[k].error

\* The same for the calls of enhanced_memory alone: each is answered once,
\* in the order of the calls.
C27_EveryMemoryToolCallAnswered ==
    ToolCallsHandled =>
        LET asked == { k \in 1..Len(raw_response.tool_calls) :
                          raw_response.tool_calls[k].name = "enhanced_memory" } IN
        /\ Len(tool_results) = Cardinality(asked)
        /\ \A k \in asked :
              Cardinality({ i \in 1..Len(tool_results) :
                              tool_results[i].tool_call_id = raw_response.tool_calls[k].id }) = 1

\* C28: when the planner has a store whose buffer is empty or holds only
\* whitespace, _read_memory_context leaves memory_context empty, so the
\* prompt of a first turn has no background information.
C28_NoContextFromEmptyStore ==
    (pc = "initial_call" /\ memory_toolkit /\ IsBlank(full_memory)) => memory_context = <<>>

\* The same without a store.
C28_NoContextWithoutStore ==
    (pc = "initial_call" /\ ~memory_toolkit) => memory_context = <<>>

\* The finish events sent for query k, by the streaming task of the query
\* or by on_message while the query was the current one.
FinishEventsOfQuery(k) ==
    { j \in 1..Len(sent) : sent[j].type = "finish" /\ sent[j].query = k }

\* C29: for each query the client is sent at most one event of type
\* finish, whether it comes from the natural end of the stream, from the
\* handler of the finish message or from the cancellation handler of the
\* streaming task, however the messages and the task interleave.
C29_AtMostOneFinishPerQuery ==
    \A k \in 1..Len(stream_tasks) : Cardinality(FinishEventsOfQuery(k)) <= 1

\* The same for the streaming task alone: the task of a query sends at
\* most one finish event.
C29_AtMostOneFinishPerTask ==
    \A k \in 1..Len(stream_tasks) : Cardinality(FinishEventsOfTask(k)) <= 1

----------------------------------------------------------------------------
(* Claim about the compression after an edit. *)

\* The buffer the replacement of the last edit left, before any compression.
EditedBuffer == ReplaceFirst(call.memory_before, call.old_string, call.new_string)

\* The last call was a successful edit that left more than
\* compression_threshold characters.
EditOverThreshold ==
    /\ call.action = "edit"
    /\ ret.kind = "edited"
    /\ StrLen(EditedBuffer) > compression_threshold

\* C23: a successful edit whose result is longer than the compression
\* threshold of 20,000 characters compresses the buffer as part of the
\* edit: the buffer stored is the compressed form, and compression_count
\* is one more than before.
C23_EditOverThresholdCompresses ==
    EditOverThreshold =>
        /\ memory_metadata.compression_count = call.metadata_before.compression_count + 1
        /\ StartsWithMarker(full_memory)

\* The same for a result longer than the capacity of 24,000 characters.
C23_EditOverCapacityCompresses ==
    (EditOverThreshold /\ StrLen(EditedBuffer) > max_memory_size) =>
        /\ memory_metadata.compression_count = call.metadata_before.compression_count + 1
        /\ StartsWithMarker(full_memory)

----------------------------------------------------------------------------
(* PlannerAgent.update_conversation_history. *)

\* The exchanges the planner keeps.
planner_history_limit == 10

\* The entry update_conversation_history appends.
HistoryEntry(user_input, response) ==
    [user_input |-> user_input, response |-> response, timestamp |-> "current_time"]

\* update_conversation_history that cuts the list to its first entries.
update_conversation_history_keeping_oldest(history, user_input, response) ==
    LET appended == Append(history, HistoryEntry(user_input, response)) IN
    IF Len(appended) > planner_history_limit
    THEN SubSeq(appended, 1, planner_history_limit)
    ELSE appended

\* update_conversation_history(user_input, response): self.conversation_history
\* afterwards.
update_conversation_history(history, user_input, response) ==
    LET appended == Append(history, HistoryEntry(user_input, response)) IN
    IF Len(appended) > planner_history_limit
    THEN SubSeq(appended, Len(appended) - planner_history_limit + 1, Len(appended))
    ELSE appended

\* What the user says and what the planner answers.
UserInputs == { Rep("x", 1), Rep("z", 1) }
PlannerAnswers == { Rep("q", 1) }

HistoryInit ==
    MemoryIdle /\ ParserIdle /\ ContextIdle /\ PlannerIdle /\ SocketIdle /\ HistoryIdle /\ SessionIdle

UpdateConversationHistory(user_input, response) ==
    /\ Len(recorded) <= MaxExchanges
    /\ planner_history' = update_conversation_history(planner_history, user_input, response)
    /\ recorded' = Append(recorded, HistoryEntry(user_input, response))
    /\ UNCHANGED <<memVars, parserVars, contextVars, plannerVars, socketVars, sessionVars>>

HistoryNext ==
    \E user_input \in UserInputs, response \in PlannerAnswers :
        UpdateConversationHistory(user_input, response)

HistorySpec == HistoryInit /\ [][HistoryNext]_vars

\* C24: after any number of calls of update_conversation_history the
\* planner holds at most 10 exchanges, and they are the last min(n, 10)
\* of the n exchanges recorded, in the order they were recorded.
C24_HistoryHoldsLastTen ==
    LET n == Len(recorded)
        kept == IF n < 10 THEN n ELSE 10
    IN  /\ Len(planner_history) <= 10
        /\ Len(planner_history) = kept
        /\ \A i \in 1..kept : planner_history[i] = recorded[n - kept + i]

\* More than ten exchanges have been recorded, and the oldest is gone.
C24_OldestExchangeDropped ==
    /\ Len(recorded) > 10
    /\ Len(planner_history) = 10
    /\ planner_history[1] # recorded[1]

----------------------------------------------------------------------------
(* Claim about the lines a truncated context keeps. *)

\* The context as it was assembled, before the test of its length.
AssembledContext ==
    JoinBlank(history_parts(conversation_history) \o memories_parts(agent_memories, 1))

\* The assembled context was longer than max_context_length.
ContextTooLong == context_step = "built" /\ StrLen(AssembledContext) > max_context_length

\* Whether result is the notice followed by the last k lines of the lines,
\* whole, where k is the largest number of trailing lines that fit: the k
\* lines, each with its line break, take at most max_context_length
\* characters, and one more line does not fit.
LongestFittingSuffix(result, all_lines) ==
    \E k \in 0..Len(all_lines) :
        /\ result = Cat(truncation_notice, JoinNL(LastLines(all_lines, k)))
        /\ StrLen(JoinNL(LastLines(all_lines, k))) + 1 <= max_context_length
        /\ k < Len(all_lines)
        /\ StrLen(JoinNL(LastLines(all_lines, k + 1))) + 1 > max_context_length

\* C26: when the assembled context is longer than the maximum, the result
\* is the truncation notice followed by whole lines from the end of the
\* assembled context: the longest run of trailing lines that fits the
\* budget, none of them cut and none of them left out between two kept.
C26_LongestRunOfTrailingLines ==
    ContextTooLong =>
        With(SplitNL(AssembledContext), LAMBDA all_lines :
            LongestFittingSuffix(context_string, all_lines))

\* A context was truncated, and the lines kept are several lines that
\* begin after the first exchange of the history.
C26_TruncatedToTrailingLines ==
    /\ ContextTooLong
    /\ context_string[1].c = "Context truncated for token limits"
    /\ Len(SplitNL(context_string)) > 3
    /\ StrLen(context_string) < StrLen(AssembledContext)

----------------------------------------------------------------------------
(* Claim about the mentions of one agent. *)

\* Where the text mentions the agent with something to do: the name, in
\* either case, then whitespace or a colon, then a piece that is no name of
\* the roster.
DescribedMentions(text, agent_name) ==
    {i \in 1..Len(text) :
        /\ Spells(text[i], agent_name)
        /\ At(text, i + 1).c \in Whitespace \cup {":"}
        /\ With(RunEnd(text, i + 1, Whitespace \cup {":"}), LAMBDA g :
              /\ g <= Len(text)
              /\ \A k \in 1..Len(available_agents) : ~Spells(text[g], available_agents[k]))}

\* The subtasks of the plan that are given to the agent.
SubtasksOf(todo, agent_name) == {i \in 1..Len(todo) : todo[i].agent_name = <<Piece(agent_name, 1)>>}

\* The response is free text that mentions agents of the roster: no line of
\* it is a numbered line, a bullet, a heading or a block, the roster holds
\* plain names, and wherever the text names an agent it says what to do.
FreeTextMentions ==
    /\ PlainRoster
    /\ available_agents # <<>>
    /\ \A i \in 1..Len(response_lines) : response_lines[i].kind = "prose"
    /\ \E k \in 1..Len(available_agents) :
          DescribedMentions(output_text, available_agents[k]) # {}
    /\ \A k \in 1..Len(available_agents) :
          \A i \in 1..Len(output_text) :
              Spells(output_text[i], available_agents[k])
                  => i \in DescribedMentions(output_text, available_agents[k])

\* No agent is mentioned twice.
MentionedOnce ==
    \A k \in 1..Len(available_agents) :
        Cardinality(DescribedMentions(output_text, available_agents[k])) <= 1

\* The response is a list: every line of it is a numbered line, with or
\* without bold, that names an agent and says what to do.
ListedMentions ==
    /\ response_lines # <<>>
    /\ \/ \A i \in 1..Len(response_lines) : response_lines[i].kind = "numbered"
       \/ \A i \in 1..Len(response_lines) : response_lines[i].kind = "bold"
    /\ \A i \in 1..Len(response_lines) :
          /\ response_lines[i].agent \in {"ResearchAgent", "AnalysisAgent"}
          /\ response_lines[i].body # <<>>

\* C25: extraction never de-duplicates: a text that mentions the same agent
\* m times gives m subtasks for that agent, also in the strategy that looks
\* for the agents' names in free text.
C25_OneSubtaskPerMention ==
    (Parsed /\ ~plan_result.raised /\ FreeTextMentions) =>
        \A k \in 1..Len(available_agents) :
            Cardinality(SubtasksOf(plan_result.todo, available_agents[k]))
              = Cardinality(DescribedMentions(output_text, available_agents[k]))

\* The same for the texts that mention no agent twice.
C25_OneSubtaskPerAgentMentionedOnce ==
    MentionedOnce => C25_OneSubtaskPerMention

\* The same for the lists: a numbered list gives one subtask for every
\* line, in line order, whether or not two lines name the same agent.
C25_OneSubtaskPerListedLine ==
    (Parsed /\ ListedMentions) =>
        /\ ~plan_result.raised
        /\ Len(plan_result.todo) = Len(response_lines)
        /\ \A i \in 1..Len(response_lines) :
              plan_result.todo[i].agent_name = <<Piece(response_lines[i].agent, 1)>>

----------------------------------------------------------------------------
(* The interactive loop of examples/career_coach/main_orchestra.py: one   *)
(* step of the machine is one pass of `while True`, from input() to the   *)
(* continue, the break or the end of the try statement.                   *)

\* What the user may type within one session.
MaxInputs == 4

max_clarifications == 3

\* The lines the user types: the commands and two questions.
Commands == {"quit", "help", "memory", "memory-clear", "memory-export", "clear"}
Questions == {"x", "z"}

\* response.final_output of agent.run: a report, or a report that asks the
\* user something ("could you", "clarify", ...).
FinalOutputs == {"report", "could you"}

\* Whether the response contains one of the clarifying phrases.
AsksForClarification(final_output) == final_output = "could you"

\* An entry of conversation_history as main appends it: the tuple
\* (user_input, response.final_output).
ExchangeTuple(user_input, final_output) ==
    [type |-> "tuple", first |-> user_input, second |-> final_output]

\* build_memory_context_string(agent_memories, conversation_history) as the
\* loop calls it: whether it raises.  With a history that is not empty it
\* calls exchange.get(...) on the first of the recent exchanges; a tuple
\* has no get.
build_memory_context_raises(history) ==
    /\ history # <<>>
    /\ LastLines(history, max_conversation_history)[1].type # "dict"

\* clarification_count after a response.
clarification_count_after(count, final_output) ==
    IF AsksForClarification(final_output)
    THEN IF count + 1 <= max_clarifications THEN count + 1 ELSE 0
    ELSE 0

\* An entry of the log of the session.
SessionEvent(kind, user_input) == [kind |-> kind, user_input |-> user_input]

SessionOver == session_log # <<>> /\ session_log[Len(session_log)].kind = "quit"

SessionFixed ==
    UNCHANGED <<memVars, parserVars, contextVars, plannerVars, socketVars, historyVars>>

SessionInit ==
    MemoryIdle /\ ParserIdle /\ ContextIdle /\ PlannerIdle /\ SocketIdle /\ HistoryIdle /\ SessionIdle

\* quit, exit, bye: the loop ends.
Quit ==
    /\ ~SessionOver
    /\ session_log' = Append(session_log, SessionEvent("quit", "quit"))
    /\ UNCHANGED <<session_history, clarification_count>>
    /\ SessionFixed

\* help, memory, memory-clear, memory-export: the loop continues.
Command(user_input) ==
    /\ ~SessionOver
    /\ Len(session_log) < MaxInputs
    /\ user_input \in Commands \ {"quit", "clear"}
    /\ session_log' = Append(session_log, SessionEvent("command", user_input))
    /\ UNCHANGED <<session_history, clarification_count>>
    /\ SessionFixed

\* clear: the history and the count are reset.
Clear ==
    /\ ~SessionOver
    /\ Len(session_log) < MaxInputs
    /\ session_history' = <<>>
    /\ clarification_count' = 0
    /\ session_log' = Append(session_log, SessionEvent("command", "clear"))
    /\ SessionFixed

\* Any other input, the context is built: agent.run is called, the exchange
\* is appended and the clarifying questions are counted.
Turn(user_input, final_output) ==
    /\ ~SessionOver
    /\ Len(session_log) < MaxInputs
    /\ ~build_memory_context_raises(session_history)
    /\ session_history' = Append(session_history, ExchangeTuple(user_input, final_output))
    /\ clarification_count' = clarification_count_after(clarification_count, final_output)
    /\ session_log' = Append(session_log, SessionEvent("run", user_input))
    /\ SessionFixed

\* Any other input, building the context raises: `except Exception` prints
\* the error and the loop goes on to the next input.
TurnAbandoned(user_input) ==
    /\ ~SessionOver
    /\ Len(session_log) < MaxInputs
    /\ build_memory_context_raises(session_history)
    /\ session_log' = Append(session_log, SessionEvent("error", user_input))
    /\ UNCHANGED <<session_history, clarification_count>>
    /\ SessionFixed

\* agent.run raises: the same handler, nothing is appended.
RunRaises(user_input) ==
    /\ ~SessionOver
    /\ Len(session_log) < MaxInputs
    /\ ~build_memory_context_raises(session_history)
    /\ session_log' = Append(session_log, SessionEvent("run_failed", user_input))
    /\ UNCHANGED <<session_history, clarification_count>>
    /\ SessionFixed

SessionNext ==
    \/ Quit
    \/ \E user_input \in Commands : Command(user_input)
    \/ Clear
    \/ \E user_input \in Questions, final_output \in FinalOutputs : Turn(user_input, final_output)
    \/ \E user_input \in Questions : TurnAbandoned(user_input)
    \/ \E user_input \in Questions : RunRaises(user_input)

SessionSpec == SessionInit /\ [][SessionNext]_vars

\* C30: every input that is no command leads to a call of agent.run, in
\* every turn of a session: no turn is abandoned while the context is
\* built from the conversation_history of the earlier turns.
C30_EveryQuestionReachesAgentRun ==
    \A i \in 1..Len(session_log) : session_log[i].kind # "error"

\* The first question of a session, and the first after a clear, reaches
\* agent.run: with an empty conversation_history the context is built.
C30_FirstQuestionReachesAgentRun ==
    \A i \in 1..Len(session_log) :
        (session_log[i].kind = "error") =>
            \E h \in 1..(i - 1) :
                /\ session_log[h].kind = "run"
                /\ \A j \in (h + 1)..(i - 1) : session_log[j].user_input # "clear"

====
